---------------------------- MODULE Spec2Model ----------------------------
(***************************************************************************)
(* A model of the business-teamspace single-page application: the          *)
(* role/permission helpers (utils/rbac), the auth store (stores/authStore) *)
(* with the ProtectedRoute of the router, the journal, log book, notices   *)
(* and todos pages, and the group chat view.                               *)
(*                                                                         *)
(* The application is a set of views over one auth store.  Each view is    *)
(* checked under its own specification (SpecRbac, SpecAuth, SpecPages,     *)
(* SpecChat); a specification leaves the variables of the other views at   *)
(* their initial values.                                                   *)
(***************************************************************************)
EXTENDS Integers, Sequences, FiniteSets, TLC

VARIABLES
    \* ---- auth store (stores/authStore.ts) ----
    user,            \* User | null
    loading,         \* boolean
    error,           \* string | null
    initialized,     \* boolean
    localStorage,    \* the keys present in the browser's local storage
    \* ---- the platform's side of the one account, and requests in flight ----
    registeredRole,  \* the role the account was registered with (metadata)
    profileRow,      \* the account's row of the users table, or NoUser
    signInPc,        \* signIn: "idle" | "auth" | "profile"
    gcuPc,           \* getCurrentUser: "idle" | "getUser" | "profile"
    signOutCall,     \* per signOut call: "idle" | "racing" | "orphan"
    eventLookups,    \* SIGNED_IN callbacks waiting for their profile lookup
    signUpPc,        \* signUp: "idle" | "auth" | "profile"
    signUpRole,      \* signUp: the role argument of the call in flight
    updPc,           \* updateProfile: "idle" | "update"
    updUser,         \* updateProfile: the user read by get() at its start
    signedOut,       \* history: a signOut has completed and no signIn
                     \* has been started since
    signUpAnswer,    \* what auth.signUp last returned
    identityExists,  \* signUp has created the account's auth identity
    \* ---- a call of one of the rbac helpers ----
    rbacCall,        \* the last helper applied, its argument and its result
    \* ---- the pages (Journal, LogBook, Notices, Todos) ----
    route,           \* the route whose page is mounted
    searchTerm,      \* the mounted page's search box
    journalDb,       \* rows of journal_entries on the platform
    entries,         \* Journal: entries
    journalLoading,  \* Journal: loading
    journalError,    \* Journal: error
    editingEntry,    \* Journal: editingEntry
    showForm,        \* Journal: showForm
    journalFetches,  \* Journal: fetchEntries calls waiting for their answer
    journalDeletes,  \* Journal: delete requests in flight
    logsLoading,     \* LogBook: loading
    logsFetches,     \* LogBook: fetchLogs calls waiting for their answer
    notices,         \* Notices: notices
    noticesLoading,  \* Notices: loading
    noticesFetches,  \* Notices: fetchNotices calls waiting for their answer
    todosDb,         \* rows of todos on the platform
    todos,           \* Todos: todos
    todosLoading,    \* Todos: loading
    todosFetches,    \* Todos: fetchTodos calls waiting for their answer
    statusReqs,      \* Todos: status updates in flight
    \* ---- GroupChat ----
    messages,        \* GroupChat: messages
    newMessage,      \* GroupChat: newMessage (the compose field)
    chatLoading,     \* GroupChat: loading
    channel,         \* GroupChat: channel
    chatError,       \* GroupChat: error
    channelLoading,  \* GroupChat: channelLoading
    sending,         \* GroupChat: sending
    subscriptionRef, \* GroupChat: "none" | "joining" | "joined" | "errored"
    messageIdsRef,   \* GroupChat: ids already seen
    chatUnmounted,   \* GroupChat: the cleanup of the mount effect has run
    initPc,          \* initializeChat: "idle" | "lookup" | "create" | "fetch"
    sendCall,        \* sendMessage: the call waiting for its answer
    uploadPc,        \* handleFileUpload: "idle" | "upload" | "message"
    uploadKey,       \* handleFileUpload: fileName
    storageKeys,     \* keys stored in the chat-attachments bucket
    attachmentRows,  \* attachment_url of the rows of messages that have one
    realtimeQueue,   \* INSERT events on their way to the subscription
    senderLookups,   \* fetchSenderInfo calls waiting for their answer
    ackedRows,       \* rows whose insert answer sendMessage has processed
    echoedRows,      \* rows whose INSERT event the callback has processed
    now,             \* Date.now()
    channelsDb,      \* whether the group channel exists on the platform
    messagesDb,      \* rows of messages on the platform
    \* ---- AgencyChat ----
    agencyMessages,  \* AgencyChat: messages
    agencyNewMessage,\* AgencyChat: newMessage
    agencyLoading,   \* AgencyChat: loading
    agencyChannel,   \* AgencyChat: channel (its id)
    agencyRequests,  \* AgencyChat: fetchChannel / fetchMessages in flight
    agencySends,     \* AgencyChat: sendMessage calls in flight
    agencySubscribed,\* AgencyChat: the subscription is open
    agencyDb,        \* rows of messages, with their channel_id
    agencyQueue,     \* INSERT events on their way to AgencyChat
    agencyLookups,   \* AgencyChat: fetchSenderInfo calls in flight
    \* ---- Settings ----
    settingsLoading, \* Settings: loading
    settingsMessage, \* Settings: message (its text)
    showPasswordForm,\* Settings: showPasswordForm
    settingsPc,      \* Settings: the handler waiting for an answer
    messageTimers,   \* Settings: setTimeout calls that will clear the message
    profileDeleted,  \* the account's users row is deleted
    identityDeleted, \* the account's auth identity is deleted
    sessionEnded,    \* auth.signOut has ended the session
    location,        \* window.location
    \* ---- AgencyAccounting ----
    transactions,    \* AgencyAccounting: transactions
    acctLoading,     \* AgencyAccounting: loading
    acctShowForm,    \* AgencyAccounting: showForm
    editingTransaction, \* AgencyAccounting: editingTransaction
    ledgerFetches,   \* fetchTransactions queries in flight (their filter)
    ledgerWrites,    \* inserts, updates and deletes in flight
    ledgerDb         \* rows of agency_accounting

authStoreVars == <<user, loading, error, initialized, localStorage>>
signUpVars == <<signUpPc, signUpRole, signUpAnswer, identityExists>>
updateProfileVars == <<updPc, updUser>>
authFlightVars ==
    <<registeredRole, profileRow, signInPc, gcuPc, signOutCall, eventLookups,
      signUpVars, updateProfileVars, signedOut>>
rbacVars == <<rbacCall>>
journalVars ==
    <<journalDb, entries, journalLoading, journalError, editingEntry, showForm,
      journalFetches, journalDeletes>>
logBookVars == <<logsLoading, logsFetches>>
noticesVars == <<notices, noticesLoading, noticesFetches>>
todosVars == <<todosDb, todos, todosLoading, todosFetches, statusReqs>>
pageVars ==
    <<route, searchTerm, journalVars, logBookVars, noticesVars, todosVars>>
chatStateVars ==
    <<messages, newMessage, chatLoading, channel, chatError, channelLoading,
      sending, subscriptionRef, messageIdsRef>>
uploadVars == <<uploadPc, uploadKey, storageKeys, attachmentRows>>
chatFlightVars ==
    <<sendCall, uploadVars, realtimeQueue, senderLookups, ackedRows, echoedRows,
      now>>
chatVars ==
    <<chatStateVars, chatFlightVars, initPc, channelsDb, messagesDb,
      chatUnmounted>>
agencyChatVars ==
    <<agencyMessages, agencyNewMessage, agencyLoading, agencyChannel,
      agencyRequests, agencySends, agencySubscribed, agencyDb, agencyQueue,
      agencyLookups>>
settingsVars ==
    <<settingsLoading, settingsMessage, showPasswordForm, settingsPc,
      messageTimers, profileDeleted, identityDeleted, sessionEnded, location>>
accountingVars ==
    <<transactions, acctLoading, acctShowForm, editingTransaction,
      ledgerFetches, ledgerWrites, ledgerDb>>
otherViewVars == <<agencyChatVars, settingsVars, accountingVars>>
otherThanChat ==
    <<authStoreVars, authFlightVars, rbacVars, pageVars, otherViewVars>>
otherThanAgencyChat ==
    <<authStoreVars, authFlightVars, rbacVars, pageVars, chatVars,
      settingsVars, accountingVars>>
otherThanSettings ==
    <<authStoreVars, authFlightVars, rbacVars, pageVars, chatVars,
      agencyChatVars, accountingVars>>
otherThanAccounting ==
    <<authStoreVars, authFlightVars, rbacVars, pageVars, chatVars,
      agencyChatVars, settingsVars>>
nonAuthVars == <<rbacVars, pageVars, chatVars, otherViewVars>>
vars ==
    <<authStoreVars, authFlightVars, rbacVars, pageVars, chatVars,
      otherViewVars>>

(***************************************************************************)
(* Values                                                                  *)
(***************************************************************************)
Null == "null"

Roles == {"core_member", "agency_member"}

\* `null` for the store's user; its fields read as undefined (user?.id).
NoUser == [id |-> Null, name |-> Null, role |-> Null, agency_id |-> Null]

UserIds == {"u1", "u2"}

MkUser(id, name, role, agency) ==
    [id |-> id, name |-> name, role |-> role, agency_id |-> agency]

\* The users a view can be rendered for.
ViewUsers ==
    { MkUser(i, "n1", "core_member", Null) : i \in UserIds }
        \cup { MkUser(i, "n1", "agency_member", "a1") : i \in UserIds }

(***************************************************************************)
(* utils/rbac                                                              *)
(***************************************************************************)
PermissionNames ==
    <<"VIEW_DASHBOARD", "VIEW_NOTICES", "VIEW_TODOS", "VIEW_GROUP_CHAT",
      "VIEW_JOURNAL", "VIEW_LOG_BOOK", "VIEW_GROUP_ACCOUNTING",
      "VIEW_AGENCY_CHAT", "VIEW_AGENCY_ACCOUNTING", "EDIT_PROFILE">>

PermissionSet == { PermissionNames[i] : i \in DOMAIN PermissionNames }

\* A table in which the journal is open to both roles.
PERMISSIONS_JournalOpen ==
    [p \in PermissionSet |-> {"core_member", "agency_member"}]

\* The roles of each permission.
PERMISSIONS ==
    [p \in PermissionSet |->
        CASE p = "VIEW_DASHBOARD"         -> {"core_member", "agency_member"}
          [] p = "VIEW_NOTICES"           -> {"core_member", "agency_member"}
          [] p = "VIEW_TODOS"             -> {"core_member", "agency_member"}
          [] p = "VIEW_GROUP_CHAT"        -> {"core_member", "agency_member"}
          [] p = "VIEW_JOURNAL"           -> {"core_member"}
          [] p = "VIEW_LOG_BOOK"          -> {"core_member"}
          [] p = "VIEW_GROUP_ACCOUNTING"  -> {"core_member"}
          [] p = "VIEW_AGENCY_CHAT"       -> {"core_member", "agency_member"}
          [] p = "VIEW_AGENCY_ACCOUNTING" -> {"core_member", "agency_member"}
          [] p = "EDIT_PROFILE"           -> {"core_member", "agency_member"}]

\* hasPermission without the check for a missing user: a missing user is
\* looked up like a core member.
hasPermission_NoNullCheck(u, permission) ==
    IF u = NoUser THEN "core_member" \in PERMISSIONS[permission]
    ELSE u.role \in PERMISSIONS[permission]

hasPermission(u, permission) ==
    IF u = NoUser THEN FALSE
    ELSE u.role \in PERMISSIONS[permission]

hasAnyPermission(u, permissions) ==
    \E i \in DOMAIN permissions : hasPermission(u, permissions[i])

hasAllPermissions(u, permissions) ==
    \A i \in DOMAIN permissions : hasPermission(u, permissions[i])

getPermissionsForRole(role) ==
    SelectSeq(PermissionNames, LAMBDA p : role \in PERMISSIONS[p])

getUserPermissions(u) ==
    IF u = NoUser THEN <<>> ELSE getPermissionsForRole(u.role)

\* A canAccessRoute that opens the core-only routes to every user.
canAccessRoute_CoreRoutesOpen(u, r) ==
    IF u = NoUser THEN FALSE
    ELSE r \in {"dashboard", "profile", "notices", "todos", "group-chat",
                "journal", "log-book", "group-accounting", "agency-chat",
                "agency-accounting"}

canAccessRoute(u, r) ==
    IF u = NoUser THEN FALSE
    ELSE IF r \in {"dashboard", "profile", "notices", "todos", "group-chat"}
         THEN TRUE
    ELSE IF r \in {"journal", "log-book", "group-accounting"}
         THEN u.role = "core_member"
    ELSE IF r \in {"agency-chat", "agency-accounting"}
         THEN TRUE
    ELSE FALSE

\* The routes of the router's protected tree, and one unknown route.
Routes ==
    {"dashboard", "profile", "group-chat", "agency-chat", "journal",
     "log-book", "group-accounting", "agency-accounting", "notices", "todos",
     "settings", "nowhere"}

\* Dashboard: the quick actions, each with the permission it asks for.
quickActions ==
    << [name |-> "Group Chat",        permission |-> "VIEW_GROUP_CHAT"],
       [name |-> "Agency Chat",       permission |-> "VIEW_AGENCY_CHAT"],
       [name |-> "Journal",           permission |-> "VIEW_JOURNAL"],
       [name |-> "Log Book",          permission |-> "VIEW_LOG_BOOK"],
       [name |-> "Group Accounting",  permission |-> "VIEW_GROUP_ACCOUNTING"],
       [name |-> "Agency Accounting", permission |-> "VIEW_AGENCY_ACCOUNTING"],
       [name |-> "Notices",           permission |-> "VIEW_NOTICES"],
       [name |-> "To-Dos",            permission |-> "VIEW_TODOS"] >>

Names(actions) == [i \in DOMAIN actions |-> actions[i].name]

\* pages/Dashboard: quickActions.filter(action => hasPermission(user, ...))
filteredQuickActions(u) ==
    SelectSeq(quickActions, LAMBDA a : hasPermission(u, a.permission))

\* The second Dashboard: user ? quickActions.filter(...) : []
filteredQuickActionsGuarded(u) ==
    IF u # NoUser
    THEN SelectSeq(quickActions, LAMBDA a : hasPermission(u, a.permission))
    ELSE <<>>

\* Layout: the sidebar entries, each with its href.
navigation ==
    << [name |-> "Dashboard",         href |-> "/dashboard"],
       [name |-> "Profile",           href |-> "/profile"],
       [name |-> "Group Chat",        href |-> "/group-chat"],
       [name |-> "Notices",           href |-> "/notices"],
       [name |-> "Journal",           href |-> "/journal"],
       [name |-> "Todos",             href |-> "/todos"],
       [name |-> "Log Book",          href |-> "/log-book"],
       [name |-> "Group Accounting",  href |-> "/group-accounting"],
       [name |-> "Agency Chat",       href |-> "/agency-chat"],
       [name |-> "Agency Accounting", href |-> "/agency-accounting"] >>

\* item.href.replace("/", ""): the href without its leading slash.
RouteOfHref(href) ==
    CASE href = "/dashboard"         -> "dashboard"
      [] href = "/profile"           -> "profile"
      [] href = "/group-chat"        -> "group-chat"
      [] href = "/notices"           -> "notices"
      [] href = "/journal"           -> "journal"
      [] href = "/todos"             -> "todos"
      [] href = "/log-book"          -> "log-book"
      [] href = "/group-accounting"  -> "group-accounting"
      [] href = "/agency-chat"       -> "agency-chat"
      [] href = "/agency-accounting" -> "agency-accounting"
      [] OTHER                       -> href

filteredNavigation(u) ==
    SelectSeq(navigation, LAMBDA item : canAccessRoute(u, RouteOfHref(item.href)))

(***************************************************************************)
(* stores/authStore: the store, the browser's local storage and the        *)
(* platform's auth service for one account                                 *)
(***************************************************************************)
MaxSignOutCalls == 2
MaxEventLookups == 1

AccountId == "u1"
MetaName == "n1"

\* A local-storage key is a sequence of segments; k.includes(s) holds when
\* s is one of them.
KeyIncludes(key, segment) == \E i \in DOMAIN key : key[i] = segment

SessionKey == <<"sb", "proj", "auth-token">>
StaleKey == <<"old", "auth-token", "bak">>
ThemeKey == <<"theme">>

\* The entries of the local storage: the session the platform's client
\* keeps, a left-over token that does not parse, and an unrelated setting.
SessionEntry == [key |-> SessionKey, value |-> "session"]
StaleEntry == [key |-> StaleKey, value |-> "junk"]
ThemeEntry == [key |-> ThemeKey, value |-> "dark"]

InitialStorages ==
    { <<ThemeEntry>>,
      <<ThemeEntry, SessionEntry>>,
      <<StaleEntry, ThemeEntry, SessionEntry>>,
      <<SessionEntry, ThemeEntry, StaleEntry>> }

HasKey(ls, key) == \E i \in DOMAIN ls : ls[i].key = key

\* The platform's client writes the session on a successful sign-in.
StoreSession(ls) ==
    IF HasKey(ls, SessionKey) THEN ls ELSE Append(ls, SessionEntry)

\* ... and removes it when the remote sign-out succeeds.
DropSession(ls) == SelectSeq(ls, LAMBDA e : e.key # SessionKey)

\* A cleanup that removes only the session key of the current project.
LocalCleanup_SessionKeyOnly(ls) == SelectSeq(ls, LAMBDA e : e.key # SessionKey)

\* signOut: Object.keys(localStorage).forEach(k =>
\*            { if (k.includes("auth-token")) localStorage.removeItem(k) })
LocalCleanup(ls) ==
    SelectSeq(ls, LAMBDA e : ~KeyIncludes(e.key, "auth-token"))

\* getStoredSession: the user of the first key that includes "auth-token",
\* null when there is none, its value is empty or it does not parse.
getStoredSession(ls) ==
    LET idx == { i \in DOMAIN ls : KeyIncludes(ls[i].key, "auth-token") }
    IN  IF idx = {} THEN FALSE
        ELSE LET first == CHOOSE i \in idx : \A j \in idx : i <= j
             IN  ls[first].value = "session"

\* The user objects the store builds.
ProfileUser(row) == row

\* signIn's basic user: role is the literal "core_member".
SignInBasicUser == MkUser(AccountId, MetaName, "core_member", Null)

\* getCurrentUser's and the auth-state callback's basic user:
\* role is user_metadata.role || "core_member".
MetaBasicUser(role) == MkUser(AccountId, MetaName, role, Null)

AuthStoreInit ==
    /\ user = NoUser
    /\ loading = FALSE
    /\ error = Null
    /\ initialized = FALSE

AuthFlightIdle ==
    /\ signInPc = "idle"
    /\ gcuPc = "idle"
    /\ signOutCall = [i \in 1..MaxSignOutCalls |-> "idle"]
    /\ eventLookups = 0
    /\ signUpPc = "idle"
    /\ signUpRole = Null
    /\ signUpAnswer = "none"
    /\ identityExists = FALSE
    /\ updPc = "idle"
    /\ updUser = NoUser
    /\ signedOut = FALSE

\* The account as registered: its metadata role, and its profile row,
\* which the sign-up may have failed to write.
RegisteredProfile(role) ==
    MkUser(AccountId, MetaName, role, IF role = "agency_member" THEN "a1" ELSE Null)

---------------------------------------------------------------------------
\* signIn

SignInStart ==
    /\ signInPc = "idle"
    /\ signInPc' = "auth"
    /\ loading' = TRUE
    /\ error' = Null
    /\ signedOut' = FALSE
    /\ UNCHANGED <<user, initialized, localStorage, registeredRole, profileRow,
                   gcuPc, signOutCall, eventLookups, signUpVars,
                   updateProfileVars,
                   nonAuthVars>>

\* signInWithPassword returns an error: caught, error set.
SignInAuthError ==
    /\ signInPc = "auth"
    /\ signInPc' = "idle"
    /\ error' = "signin-failed"
    /\ loading' = FALSE
    /\ initialized' = TRUE
    /\ UNCHANGED <<user, localStorage, registeredRole, profileRow,
                   gcuPc, signOutCall, eventLookups, signUpVars,
                   updateProfileVars, signedOut,
                   nonAuthVars>>

\* signInWithPassword returns a user: the client stores the session and
\* emits SIGNED_IN (whose callback starts its own profile lookup); signIn
\* goes on to its profile lookup.
SignInAuthUser ==
    /\ signInPc = "auth"
    /\ eventLookups < MaxEventLookups
    /\ signInPc' = "profile"
    /\ localStorage' = StoreSession(localStorage)
    /\ eventLookups' = eventLookups + 1
    /\ UNCHANGED <<user, loading, error, initialized, registeredRole,
                   profileRow, gcuPc, signOutCall, signUpVars,
                   updateProfileVars, signedOut,
                   nonAuthVars>>

\* signInWithPassword returns neither an error nor a user: nothing is set.
SignInAuthNoUser ==
    /\ signInPc = "auth"
    /\ signInPc' = "idle"
    /\ UNCHANGED <<authStoreVars, registeredRole, profileRow,
                   gcuPc, signOutCall, eventLookups, signUpVars,
                   updateProfileVars, signedOut,
                   nonAuthVars>>

\* The user signIn publishes for a profile lookup's outcome.
SignInUserFor(outcome) ==
    IF outcome = "row" /\ profileRow # NoUser
    THEN ProfileUser(profileRow)
    ELSE SignInBasicUser

\* The profile lookup of signIn answers: a row, no row, an error, a throw.
SignInProfile ==
    /\ signInPc = "profile"
    /\ \E outcome \in {"row", "error", "throw"} :
          user' = SignInUserFor(outcome)
    /\ signInPc' = "idle"
    /\ loading' = FALSE
    /\ initialized' = TRUE
    /\ UNCHANGED <<error, localStorage, registeredRole, profileRow,
                   gcuPc, signOutCall, eventLookups, signUpVars,
                   updateProfileVars, signedOut,
                   nonAuthVars>>

---------------------------------------------------------------------------
\* signUp

\* signUp up to auth.signUp; its await of signIn makes it wait for a signIn
\* in flight.
SignUpStart ==
    /\ signUpPc = "idle"
    /\ signInPc = "idle"
    /\ \E role \in Roles : signUpRole' = role
    /\ signUpPc' = "auth"
    /\ loading' = TRUE
    /\ error' = Null
    /\ UNCHANGED <<user, initialized, localStorage, registeredRole,
                   profileRow, signInPc, gcuPc, signOutCall, eventLookups,
                   identityExists, signUpAnswer, updateProfileVars, signedOut,
                   nonAuthVars>>

\* auth.signUp returns an error or throws: the catch of signUp.
SignUpAuthError ==
    /\ signUpPc = "auth"
    /\ signUpAnswer' = "error"
    /\ signUpPc' = "idle"
    /\ signUpRole' = Null
    /\ error' = "signup-failed"
    /\ loading' = FALSE
    /\ initialized' = TRUE
    /\ UNCHANGED <<user, localStorage, registeredRole, profileRow, signInPc,
                   gcuPc, signOutCall, eventLookups, identityExists,
                   updateProfileVars, signedOut,
                   nonAuthVars>>

\* auth.signUp returns a user: the identity exists, with the role in its
\* metadata; the insert of the users row is issued.
SignUpAuthUser ==
    /\ signUpPc = "auth"
    /\ ~identityExists
    /\ signUpAnswer' = "user"
    /\ identityExists' = TRUE
    /\ registeredRole' = signUpRole
    /\ signUpPc' = "profile"
    /\ UNCHANGED <<authStoreVars, profileRow, signInPc, gcuPc, signOutCall,
                   eventLookups, signUpRole, updateProfileVars, signedOut,
                   nonAuthVars>>

\* auth.signUp returns neither an error nor a user: nothing is set.
SignUpAuthNoUser ==
    /\ signUpPc = "auth"
    /\ signUpAnswer' = "nothing"
    /\ signUpPc' = "idle"
    /\ signUpRole' = Null
    /\ UNCHANGED <<authStoreVars, registeredRole, profileRow, signInPc,
                   gcuPc, signOutCall, eventLookups, identityExists,
                   updateProfileVars, signedOut,
                   nonAuthVars>>

AfterProfileInsert_StopOnError(inserted) ==
    IF inserted THEN "signIn" ELSE "catch"

\* What signUp does once the insert of the users row has answered.
AfterProfileInsert(inserted) == "signIn"

\* The insert of the users row answers (inserted, or an error or a throw,
\* which are logged); signUp calls signIn.
SignUpProfileAnswered ==
    /\ signUpPc = "profile"
    /\ \E inserted \in BOOLEAN :
        /\ profileRow' = IF inserted THEN RegisteredProfile(signUpRole)
                         ELSE profileRow
        /\ IF AfterProfileInsert(inserted) = "signIn"
           THEN /\ signInPc' = "auth"
                /\ loading' = TRUE
                /\ error' = Null
                /\ signedOut' = FALSE
                /\ UNCHANGED initialized
           ELSE /\ error' = "signup-failed"
                /\ loading' = FALSE
                /\ initialized' = TRUE
                /\ UNCHANGED <<signInPc, signedOut>>
    /\ signUpPc' = "idle"
    /\ signUpRole' = Null
    /\ UNCHANGED <<user, localStorage, registeredRole, gcuPc, signOutCall,
                   eventLookups, identityExists, signUpAnswer, updateProfileVars,
                   nonAuthVars>>

---------------------------------------------------------------------------
\* signOut

\* signOut after the race: the local cleanup, then the final state.
SignOutFinalState ==
    /\ localStorage' = LocalCleanup(localStorage)
    /\ user' = NoUser
    /\ loading' = FALSE
    /\ initialized' = TRUE
    /\ error' = Null
    /\ signedOut' = TRUE

SignOutStart(i) ==
    /\ signOutCall[i] = "idle"
    /\ signOutCall' = [signOutCall EXCEPT ![i] = "racing"]
    /\ loading' = TRUE
    /\ UNCHANGED <<user, error, initialized, localStorage, registeredRole,
                   profileRow, signInPc, gcuPc, eventLookups, signUpVars,
                   updateProfileVars, signedOut,
                   nonAuthVars>>

\* The timer of the race fires first: the remote call is left behind.
SignOutTimeout(i) ==
    /\ signOutCall[i] = "racing"
    /\ signOutCall' = [signOutCall EXCEPT ![i] = "orphan"]
    /\ SignOutFinalState
    /\ UNCHANGED <<registeredRole, profileRow, signInPc, gcuPc,
                   eventLookups, signUpVars,
                   updateProfileVars,
                   nonAuthVars>>

\* The remote sign-out settles while the call still waits for it.  On
\* success the client drops its session and emits SIGNED_OUT, whose
\* callback sets user = null, initialized = true; a rejection is caught.
\* Either way the race is over and the call finishes.
SignOutRemoteSettles(i) ==
    /\ signOutCall[i] = "racing"
    /\ signOutCall' = [signOutCall EXCEPT ![i] = "idle"]
    /\ SignOutFinalState
    /\ UNCHANGED <<registeredRole, profileRow, signInPc, gcuPc,
                   eventLookups, signUpVars,
                   updateProfileVars,
                   nonAuthVars>>

\* The remote sign-out settles after the timer has won the race.
SignOutRemoteLate(i) ==
    /\ signOutCall[i] = "orphan"
    /\ signOutCall' = [signOutCall EXCEPT ![i] = "idle"]
    /\ \/ /\ localStorage' = DropSession(localStorage)
          /\ user' = NoUser
          /\ initialized' = TRUE
       \/ UNCHANGED <<localStorage, user, initialized>>
    /\ UNCHANGED <<loading, error, registeredRole, profileRow, signInPc,
                   gcuPc, eventLookups, signUpVars,
                   updateProfileVars, signedOut,
                   nonAuthVars>>

---------------------------------------------------------------------------
\* getCurrentUser

\* A getCurrentUser that ignores the cached session and waits for the
\* remote answer.
GetCurrentUserStart_IgnoresCache ==
    /\ gcuPc = "idle"
    /\ IF initialized \/ loading
       THEN UNCHANGED <<authStoreVars, gcuPc>>
       ELSE /\ gcuPc' = "getUser"
            /\ error' = Null
            /\ loading' = TRUE
            /\ UNCHANGED <<user, initialized, localStorage>>
    /\ UNCHANGED <<registeredRole, profileRow, signInPc, signOutCall,
                   eventLookups, signUpVars,
                   updateProfileVars, signedOut,
                   nonAuthVars>>

\* A getCurrentUser without its guard.
GetCurrentUserCall_NoGuard ==
    /\ gcuPc = "idle"
    /\ gcuPc' = "getUser"
    /\ error' = Null
    /\ IF getStoredSession(localStorage)
       THEN /\ user' = MetaBasicUser(registeredRole)
            /\ loading' = FALSE
            /\ initialized' = TRUE
       ELSE /\ loading' = TRUE
            /\ UNCHANGED <<user, initialized>>
    /\ UNCHANGED localStorage

\* getCurrentUser up to its await, as any caller runs it: the guard, then
\* the cached session: with one, a basic user is published at once; the
\* remote getUser is awaited either way.
GetCurrentUserCall ==
    /\ gcuPc = "idle"
    /\ IF initialized \/ loading
       THEN UNCHANGED <<authStoreVars, gcuPc>>
       ELSE /\ gcuPc' = "getUser"
            /\ error' = Null
            /\ IF getStoredSession(localStorage)
               THEN /\ user' = MetaBasicUser(registeredRole)
                    /\ loading' = FALSE
                    /\ initialized' = TRUE
               ELSE /\ loading' = TRUE
                    /\ UNCHANGED <<user, initialized>>
            /\ UNCHANGED localStorage

\* getCurrentUser called on load.
GetCurrentUserStart ==
    /\ GetCurrentUserCall
    /\ UNCHANGED <<registeredRole, profileRow, signInPc, signOutCall,
                   eventLookups, signUpVars,
                   updateProfileVars, signedOut,
                   nonAuthVars>>

\* auth.getUser() answers with the identity of the session.
GetCurrentUserIdentity ==
    /\ gcuPc = "getUser"
    /\ HasKey(localStorage, SessionKey)
    /\ gcuPc' = "profile"
    /\ UNCHANGED <<authStoreVars, registeredRole, profileRow, signInPc,
                   signOutCall, eventLookups, signUpVars,
                   updateProfileVars, signedOut,
                   nonAuthVars>>

\* auth.getUser() answers with no identity.
GetCurrentUserNoIdentity ==
    /\ gcuPc = "getUser"
    /\ gcuPc' = "idle"
    /\ user' = NoUser
    /\ loading' = FALSE
    /\ initialized' = TRUE
    /\ UNCHANGED <<error, localStorage, registeredRole, profileRow, signInPc,
                   signOutCall, eventLookups, signUpVars,
                   updateProfileVars, signedOut,
                   nonAuthVars>>

\* auth.getUser() throws.
GetCurrentUserThrows ==
    /\ gcuPc = "getUser"
    /\ gcuPc' = "idle"
    /\ error' = "getuser-failed"
    /\ loading' = FALSE
    /\ initialized' = TRUE
    /\ UNCHANGED <<user, localStorage, registeredRole, profileRow, signInPc,
                   signOutCall, eventLookups, signUpVars,
                   updateProfileVars, signedOut,
                   nonAuthVars>>

\* The user getCurrentUser publishes for a profile lookup's outcome.
MetaUserFor(outcome) ==
    IF outcome = "row" /\ profileRow # NoUser
    THEN ProfileUser(profileRow)
    ELSE MetaBasicUser(registeredRole)

\* The profile lookup of getCurrentUser answers.
GetCurrentUserProfile ==
    /\ gcuPc = "profile"
    /\ \E outcome \in {"row", "error", "throw"} :
          user' = MetaUserFor(outcome)
    /\ gcuPc' = "idle"
    /\ loading' = FALSE
    /\ initialized' = TRUE
    /\ UNCHANGED <<error, localStorage, registeredRole, profileRow, signInPc,
                   signOutCall, eventLookups, signUpVars,
                   updateProfileVars, signedOut,
                   nonAuthVars>>

---------------------------------------------------------------------------
\* onAuthStateChange

\* The profile lookup of a SIGNED_IN callback answers.
SignedInCallback ==
    /\ eventLookups > 0
    /\ eventLookups' = eventLookups - 1
    /\ \E outcome \in {"row", "throw"} :
          user' = MetaUserFor(outcome)
    /\ initialized' = TRUE
    /\ UNCHANGED <<loading, error, localStorage, registeredRole, profileRow,
                   signInPc, gcuPc, signOutCall, signUpVars,
                   updateProfileVars, signedOut,
                   nonAuthVars>>

\* The client emits SIGNED_IN for the session it holds (on start, when the
\* tab regains focus): the callback starts its profile lookup.
AuthEventSignedIn ==
    /\ HasKey(localStorage, SessionKey)
    /\ eventLookups < MaxEventLookups
    /\ eventLookups' = eventLookups + 1
    /\ UNCHANGED <<authStoreVars, registeredRole, profileRow, signInPc, gcuPc,
                   signOutCall, signUpVars,
                   updateProfileVars, signedOut,
                   nonAuthVars>>

---------------------------------------------------------------------------
\* updateProfile

\* The fields Profile's form passes to updateProfile.
ProfileUpdates == [name |-> "n2"]

\* { ...user, ...updates }
MergeUpdates(u, updates) == [u EXCEPT !.name = updates.name]

\* updateProfile up to its await: the user is read once, by get().
UpdateProfileStart ==
    /\ updPc = "idle"
    /\ IF user = NoUser
       THEN UNCHANGED <<loading, updPc, updUser>>
       ELSE /\ loading' = TRUE
            /\ updPc' = "update"
            /\ updUser' = user
    /\ UNCHANGED <<user, error, initialized, localStorage, registeredRole,
                   profileRow, signInPc, gcuPc, signOutCall, eventLookups,
                   signUpVars, signedOut, nonAuthVars>>

\* The update of the users row answers without an error.
UpdateProfileOk ==
    /\ updPc = "update"
    /\ profileRow' = IF profileRow = NoUser THEN profileRow
                     ELSE MergeUpdates(profileRow, ProfileUpdates)
    /\ user' = MergeUpdates(updUser, ProfileUpdates)
    /\ loading' = FALSE
    /\ updPc' = "idle"
    /\ updUser' = NoUser
    /\ UNCHANGED <<error, initialized, localStorage, registeredRole,
                   signInPc, gcuPc, signOutCall, eventLookups, signUpVars,
                   signedOut, nonAuthVars>>

\* The update answers with an error or throws: the catch.
UpdateProfileError ==
    /\ updPc = "update"
    /\ error' = "update-failed"
    /\ loading' = FALSE
    /\ updPc' = "idle"
    /\ updUser' = NoUser
    /\ UNCHANGED <<user, initialized, localStorage, registeredRole,
                   profileRow, signInPc, gcuPc, signOutCall, eventLookups,
                   signUpVars, signedOut, nonAuthVars>>

---------------------------------------------------------------------------
\* App: ProtectedRoute

\* A ProtectedRoute that does not wait for loading to clear.
ProtectedRoute_IgnoresLoading(u, isLoading, isInitialized) ==
    IF ~isInitialized THEN "loading-screen"
    ELSE IF u = NoUser THEN "redirect-login"
    ELSE "children"

\* What ProtectedRoute returns for the store's user, loading, initialized.
ProtectedRoute(u, isLoading, isInitialized) ==
    IF ~isInitialized \/ isLoading THEN "loading-screen"
    ELSE IF u = NoUser THEN "redirect-login"
    ELSE "children"

(***************************************************************************)
(* The rbac helpers applied to the store's user                            *)
(***************************************************************************)
MaxPermList == 2

\* The permission lists handed to hasAnyPermission / hasAllPermissions:
\* lists over two shared and two core-only permissions.
ListedPermissions ==
    {"VIEW_NOTICES", "EDIT_PROFILE", "VIEW_JOURNAL", "VIEW_GROUP_ACCOUNTING"}

PermissionLists ==
    UNION { [1..n -> ListedPermissions] : n \in 0..MaxPermList }

NoCall == [fn |-> "none", arg |-> Null, result |-> Null]

RbacIdle == rbacCall = NoCall

CallHasPermission ==
    \E p \in PermissionSet :
        rbacCall' = [fn |-> "hasPermission", arg |-> p,
                     result |-> hasPermission(user, p)]

CallHasAnyPermission ==
    \E ps \in PermissionLists :
        rbacCall' = [fn |-> "hasAnyPermission", arg |-> ps,
                     result |-> hasAnyPermission(user, ps)]

CallHasAllPermissions ==
    \E ps \in PermissionLists :
        rbacCall' = [fn |-> "hasAllPermissions", arg |-> ps,
                     result |-> hasAllPermissions(user, ps)]

CallGetUserPermissions ==
    rbacCall' = [fn |-> "getUserPermissions", arg |-> Null,
                 result |-> getUserPermissions(user)]

CallCanAccessRoute ==
    \E r \in Routes :
        rbacCall' = [fn |-> "canAccessRoute", arg |-> r,
                     result |-> canAccessRoute(user, r)]

RenderDashboard ==
    rbacCall' = [fn |-> "Dashboard", arg |-> Null,
                 result |-> Names(filteredQuickActions(user))]

RenderDashboardGuarded ==
    rbacCall' = [fn |-> "DashboardGuarded", arg |-> Null,
                 result |-> Names(filteredQuickActionsGuarded(user))]

RenderLayout ==
    rbacCall' = [fn |-> "Layout", arg |-> Null,
                 result |-> Names(filteredNavigation(user))]

(***************************************************************************)
(* The pages.  One page is mounted at a time; a page's state is created    *)
(* when its route is entered and its mount effect starts the first load.   *)
(* Requests of a page that has been left still reach the platform, but    *)
(* their answers no longer change any view (live = FALSE).  The search    *)
(* box matches on the title; the other filters of the todo list stay at   *)
(* "all".                                                                  *)
(***************************************************************************)
MaxFetches == 2
MaxStatusReqs == 2

SearchTerms == {"", "a", "b"}

\* text.toLowerCase().includes(term.toLowerCase()) on one-letter titles.
Includes(text, term) == term = "" \/ term = text

Range(seq) == { seq[i] : i \in DOMAIN seq }

\* .order('created_at', { ascending: false })
RowsDescending(rows) ==
    CHOOSE seq \in [1..Cardinality(rows) -> rows] :
        \A i, j \in 1..Cardinality(rows) :
            i < j => seq[i].created_at > seq[j].created_at

RemoveAt(seq, i) == SubSeq(seq, 1, i - 1) \o SubSeq(seq, i + 1, Len(seq))

Stale(reqs) == { [r EXCEPT !.live = FALSE] : r \in reqs }

StaleSeq(reqs) == [i \in DOMAIN reqs |-> [reqs[i] EXCEPT !.live = FALSE]]

---------------------------------------------------------------------------
\* pages/Journal

JournalRows ==
    { [id |-> "j1", author_id |-> "u1", title |-> "a", created_at |-> 1],
      [id |-> "j2", author_id |-> "u2", title |-> "b", created_at |-> 2] }

NoEntry == [id |-> Null, author_id |-> Null, title |-> Null, created_at |-> 0]

\* A journal that is rendered for every signed-in user.
JournalView_AnyUser(u) ==
    IF u = NoUser THEN "restricted" ELSE "content"

\* if (user?.role !== 'core_member') return <Access Restricted/>
JournalView(u) ==
    IF u.role # "core_member" THEN "restricted" ELSE "content"

filteredEntries == SelectSeq(entries, LAMBDA e : Includes(e.title, searchTerm))

\* The entry cards are rendered below the header when the page is not
\* loading and the feature is set up.
JournalEntryDisplayed(e) ==
    /\ JournalView(user) = "content"
    /\ ~journalLoading
    /\ journalError # "not yet set up"
    /\ e \in Range(filteredEntries)

\* Controls that are rendered on every card.
JournalControlsOffered_Always(u, e) == TRUE

\* {entry.author_id === user?.id && (<edit/> <delete/>)}
JournalControlsOffered(u, e) == e.author_id = u.id

JournalMounted ==
    /\ entries = <<>>
    /\ journalLoading = FALSE
    /\ journalError = Null
    /\ editingEntry = NoEntry
    /\ showForm = FALSE
    /\ journalFetches = 0

\* fetchEntries up to its await.
StartFetchEntries ==
    /\ journalFetches < MaxFetches
    /\ journalFetches' = journalFetches + 1
    /\ journalLoading' = TRUE
    /\ journalError' = Null

FetchEntriesOk ==
    /\ route = "journal"
    /\ journalFetches > 0
    /\ journalFetches' = journalFetches - 1
    /\ entries' = RowsDescending(journalDb)
    /\ journalLoading' = FALSE
    /\ UNCHANGED <<journalDb, journalError, editingEntry, showForm,
                   journalDeletes, route, searchTerm, logBookVars,
                   noticesVars, todosVars, authStoreVars, authFlightVars,
                   rbacVars, chatVars,
                   otherViewVars>>

\* The load answers with an error (PGRST116: the table is missing) or throws.
FetchEntriesError ==
    /\ route = "journal"
    /\ journalFetches > 0
    /\ journalFetches' = journalFetches - 1
    /\ \E msg \in {"not yet set up", "failed to load"} : journalError' = msg
    /\ entries' = <<>>
    /\ journalLoading' = FALSE
    /\ UNCHANGED <<journalDb, editingEntry, showForm, journalDeletes, route,
                   searchTerm, logBookVars, noticesVars, todosVars,
                   authStoreVars, authFlightVars, rbacVars, chatVars,
                   otherViewVars>>

\* A click on the edit control of a card.
JournalHandleEdit ==
    /\ route = "journal"
    /\ \E e \in Range(entries) :
        /\ JournalEntryDisplayed(e)
        /\ JournalControlsOffered(user, e)
        /\ editingEntry' = e
    /\ showForm' = TRUE
    /\ UNCHANGED <<journalDb, entries, journalLoading, journalError,
                   journalFetches, journalDeletes, route, searchTerm,
                   logBookVars, noticesVars, todosVars, authStoreVars,
                   authFlightVars, rbacVars, chatVars,
                   otherViewVars>>

\* A click on the delete control of a card, confirmed.
JournalHandleDelete ==
    /\ route = "journal"
    /\ \E e \in Range(entries) :
        /\ JournalEntryDisplayed(e)
        /\ JournalControlsOffered(user, e)
        /\ journalDeletes' = journalDeletes \cup {[id |-> e.id, live |-> TRUE]}
    /\ journalError' = Null
    /\ UNCHANGED <<journalDb, entries, journalLoading, editingEntry, showForm,
                   journalFetches, route, searchTerm, logBookVars,
                   noticesVars, todosVars, authStoreVars, authFlightVars,
                   rbacVars, chatVars,
                   otherViewVars>>

\* The delete is done: the row is gone and the page reloads.
JournalDeleteOk ==
    /\ \E d \in journalDeletes :
        /\ journalDeletes' = journalDeletes \ {d}
        /\ journalDb' = { r \in journalDb : r.id # d.id }
        /\ IF d.live
           THEN StartFetchEntries
           ELSE UNCHANGED <<journalFetches, journalLoading, journalError>>
    /\ UNCHANGED <<entries, editingEntry, showForm, route, searchTerm,
                   logBookVars, noticesVars, todosVars, authStoreVars,
                   authFlightVars, rbacVars, chatVars,
                   otherViewVars>>

\* The delete answers with an error or throws.
JournalDeleteError ==
    /\ \E d \in journalDeletes :
        /\ journalDeletes' = journalDeletes \ {d}
        /\ IF d.live
           THEN journalError' = "failed to delete"
           ELSE UNCHANGED journalError
    /\ UNCHANGED <<journalDb, entries, journalLoading, editingEntry, showForm,
                   journalFetches, route, searchTerm, logBookVars,
                   noticesVars, todosVars, authStoreVars, authFlightVars,
                   rbacVars, chatVars,
                   otherViewVars>>

\* The "New Entry" button of the header.
JournalOpenForm ==
    /\ route = "journal"
    /\ JournalView(user) = "content"
    /\ ~showForm
    /\ showForm' = TRUE
    /\ UNCHANGED <<journalDb, entries, journalLoading, journalError,
                   editingEntry, journalFetches, journalDeletes, route,
                   searchTerm, logBookVars, noticesVars, todosVars,
                   authStoreVars, authFlightVars, rbacVars, chatVars,
                   otherViewVars>>

JournalHandleCancel ==
    /\ route = "journal"
    /\ JournalView(user) = "content"
    /\ showForm
    /\ showForm' = FALSE
    /\ editingEntry' = NoEntry
    /\ journalError' = Null
    /\ UNCHANGED <<journalDb, entries, journalLoading, journalFetches,
                   journalDeletes, route, searchTerm, logBookVars,
                   noticesVars, todosVars, authStoreVars, authFlightVars,
                   rbacVars, chatVars,
                   otherViewVars>>

---------------------------------------------------------------------------
\* pages/LogBook

LogBookView(u) ==
    IF u.role # "core_member" THEN "restricted" ELSE "content"

LogBookMounted ==
    /\ logsLoading = FALSE
    /\ logsFetches = 0

\* fetchLogs answers (rows, or an error that is only logged).
FetchLogsDone ==
    /\ route = "log-book"
    /\ logsFetches > 0
    /\ logsFetches' = logsFetches - 1
    /\ logsLoading' = FALSE
    /\ UNCHANGED <<route, searchTerm, journalVars, noticesVars, todosVars,
                   authStoreVars, authFlightVars, rbacVars, chatVars,
                   otherViewVars>>

---------------------------------------------------------------------------
\* pages/Notices

NoticeRows ==
    { [id |-> "n1", posted_by |-> "u1", title |-> "a", created_at |-> 1],
      [id |-> "n2", posted_by |-> "u2", title |-> "b", created_at |-> 2] }

filteredNotices == SelectSeq(notices, LAMBDA n : Includes(n.title, searchTerm))

NoticeDisplayed(n) ==
    /\ ~noticesLoading
    /\ n \in Range(filteredNotices)

\* {notice.posted_by === user?.id && (<edit/> <delete/>)}
NoticeControlsOffered(u, n) == n.posted_by = u.id

NoticesMounted ==
    /\ notices = <<>>
    /\ noticesLoading = FALSE
    /\ noticesFetches = 0

FetchNoticesOk ==
    /\ route = "notices"
    /\ noticesFetches > 0
    /\ noticesFetches' = noticesFetches - 1
    /\ notices' = RowsDescending(NoticeRows)
    /\ noticesLoading' = FALSE
    /\ UNCHANGED <<route, searchTerm, journalVars, logBookVars, todosVars,
                   authStoreVars, authFlightVars, rbacVars, chatVars,
                   otherViewVars>>

\* The load fails: the error is logged, the list is left as it is.
FetchNoticesError ==
    /\ route = "notices"
    /\ noticesFetches > 0
    /\ noticesFetches' = noticesFetches - 1
    /\ noticesLoading' = FALSE
    /\ UNCHANGED <<notices, route, searchTerm, journalVars, logBookVars,
                   todosVars, authStoreVars, authFlightVars, rbacVars, chatVars,
                   otherViewVars>>

---------------------------------------------------------------------------
\* pages/Todos

Statuses == {"pending", "completed"}

TodoIds == {"t1", "t2"}

\* The row of a todo: t1 is a personal task, t2 a task of agency a1.
TodoRow(id, status) ==
    IF id = "t1"
    THEN [id |-> id, status |-> status, title |-> "a", agency_id |-> Null,
          assigned_to |-> "u1", created_at |-> 1]
    ELSE [id |-> id, status |-> status, title |-> "b", agency_id |-> "a1",
          assigned_to |-> "u2", created_at |-> 2]

\* A query that is never filtered by agency.
TodosQuery_Unfiltered(u, db) == { TodoRow(id, db[id]) : id \in TodoIds }

\* fetchTodos' query: every row, or the rows of the user's agency.
TodosQuery(u, db) ==
    LET rows == { TodoRow(id, db[id]) : id \in TodoIds }
    IN  IF u.role = "agency_member" /\ u.agency_id # Null
        THEN { r \in rows : r.agency_id = u.agency_id }
        ELSE rows

filteredTodos == SelectSeq(todos, LAMBDA t : Includes(t.title, searchTerm))

\* A todo is rendered in the Pending or in the Completed section.
TodoDisplayed(t) ==
    /\ ~todosLoading
    /\ t \in Range(filteredTodos)
    /\ t.status \in Statuses

\* A button that asks for the status the todo already shows.
StatusButtonTarget_Same(t) == t.status

\* onStatusChange(todo.id, todo.status === 'completed' ? 'pending' : 'completed')
StatusButtonTarget(t) ==
    IF t.status = "completed" THEN "pending" ELSE "completed"

\* .from('todos').update({ status: newStatus }).eq('id', todoId)
ApplyStatusUpdate(db, id, newStatus) == [db EXCEPT ![id] = newStatus]

TodosMounted ==
    /\ todos = <<>>
    /\ todosLoading = FALSE
    /\ todosFetches = 0

\* fetchTodos up to its await.
StartFetchTodos ==
    /\ todosFetches < MaxFetches
    /\ todosFetches' = todosFetches + 1
    /\ todosLoading' = TRUE

FetchTodosOk ==
    /\ route = "todos"
    /\ todosFetches > 0
    /\ todosFetches' = todosFetches - 1
    /\ todos' = RowsDescending(TodosQuery(user, todosDb))
    /\ todosLoading' = FALSE
    /\ UNCHANGED <<todosDb, statusReqs, route, searchTerm, journalVars,
                   logBookVars, noticesVars, authStoreVars, authFlightVars,
                   rbacVars, chatVars,
                   otherViewVars>>

\* The load fails: the error is logged, the list is left as it is.
FetchTodosError ==
    /\ route = "todos"
    /\ todosFetches > 0
    /\ todosFetches' = todosFetches - 1
    /\ todosLoading' = FALSE
    /\ UNCHANGED <<todosDb, todos, statusReqs, route, searchTerm, journalVars,
                   logBookVars, noticesVars, authStoreVars, authFlightVars,
                   rbacVars, chatVars,
                   otherViewVars>>

\* A click on the status button of a rendered todo: handleStatusChange
\* sends the update.  The request remembers the status the todo showed.
HandleStatusChange ==
    /\ route = "todos"
    /\ Len(statusReqs) < MaxStatusReqs
    /\ \E t \in Range(todos) :
        /\ TodoDisplayed(t)
        /\ statusReqs' = Append(statusReqs,
                [id |-> t.id, status |-> StatusButtonTarget(t),
                 shown |-> t.status, live |-> TRUE])
    /\ UNCHANGED <<todosDb, todos, todosLoading, todosFetches, route,
                   searchTerm, journalVars, logBookVars, noticesVars,
                   authStoreVars, authFlightVars, rbacVars, chatVars,
                   otherViewVars>>

\* An update is applied and answers: handleStatusChange reloads the list.
StatusUpdateOk ==
    /\ \E i \in DOMAIN statusReqs :
        /\ todosDb' = ApplyStatusUpdate(todosDb, statusReqs[i].id,
                                        statusReqs[i].status)
        /\ statusReqs' = RemoveAt(statusReqs, i)
        /\ IF statusReqs[i].live
           THEN StartFetchTodos
           ELSE UNCHANGED <<todosFetches, todosLoading>>
    /\ UNCHANGED <<todos, route, searchTerm, journalVars, logBookVars,
                   noticesVars, authStoreVars, authFlightVars, rbacVars, chatVars,
                   otherViewVars>>

\* An update fails: the error is logged.
StatusUpdateError ==
    /\ \E i \in DOMAIN statusReqs : statusReqs' = RemoveAt(statusReqs, i)
    /\ UNCHANGED <<todosDb, todos, todosLoading, todosFetches, route,
                   searchTerm, journalVars, logBookVars, noticesVars,
                   authStoreVars, authFlightVars, rbacVars, chatVars,
                   otherViewVars>>

---------------------------------------------------------------------------
\* The router and the search box

PagesMounted ==
    /\ searchTerm = ""
    /\ JournalMounted
    /\ LogBookMounted
    /\ NoticesMounted
    /\ TodosMounted

PagesIdle ==
    /\ route = "dashboard"
    /\ PagesMounted
    /\ journalDb = JournalRows
    /\ journalDeletes = {}
    /\ todosDb = [id \in TodoIds |-> "pending"]
    /\ statusReqs = <<>>

\* The route changes (a link, or the address typed in): the page that is
\* left is unmounted, the page of the new route is mounted and its mount
\* effect starts the first load.  The router asks for no permission.
Navigate ==
    \E r \in Routes :
        /\ route' = r
        /\ searchTerm' = ""
        /\ entries' = <<>>
        /\ journalError' = Null
        /\ editingEntry' = NoEntry
        /\ showForm' = FALSE
        /\ journalLoading' = (r = "journal")
        /\ journalFetches' = IF r = "journal" THEN 1 ELSE 0
        /\ journalDeletes' = Stale(journalDeletes)
        /\ logsLoading' = (r = "log-book")
        /\ logsFetches' = IF r = "log-book" THEN 1 ELSE 0
        /\ notices' = <<>>
        /\ noticesLoading' = (r = "notices")
        /\ noticesFetches' = IF r = "notices" THEN 1 ELSE 0
        /\ todos' = <<>>
        /\ todosLoading' = (r = "todos")
        /\ todosFetches' = IF r = "todos" THEN 1 ELSE 0
        /\ statusReqs' = StaleSeq(statusReqs)
        /\ UNCHANGED <<journalDb, todosDb, authStoreVars, authFlightVars,
                       rbacVars, chatVars,
                   otherViewVars>>

SetSearchTerm ==
    /\ route \in {"journal", "notices", "todos"}
    /\ route = "journal" => JournalView(user) = "content"
    /\ \E t \in SearchTerms : searchTerm' = t
    /\ UNCHANGED <<route, journalVars, logBookVars, noticesVars, todosVars,
                   authStoreVars, authFlightVars, rbacVars, chatVars,
                   otherViewVars>>

\* The inline error message a page renders: Journal renders its error state;
\* Notices and Todos keep no error state and render none.
InlineError(page) ==
    CASE page = "journal" -> journalError
      [] OTHER            -> Null

\* What the mounted page renders: its content or the restricted notice.
PageView ==
    CASE route = "journal"  -> JournalView(user)
      [] route = "log-book" -> LogBookView(user)
      [] OTHER              -> "content"

(***************************************************************************)
(* GroupChat                                                               *)
(***************************************************************************)
MaxRows == 2
MaxNow == 1

\* Text is a sequence of characters, so that trim() is computed.
Drafts == {<<>>, <<" ">>, <<" ", "h", "i">>}

RECURSIVE TrimStart(_)
TrimStart(s) ==
    IF s = <<>> THEN s
    ELSE IF Head(s) = " " THEN TrimStart(Tail(s)) ELSE s

RECURSIVE TrimEnd(_)
TrimEnd(s) ==
    IF s = <<>> THEN s
    ELSE IF s[Len(s)] = " " THEN TrimEnd(SubSeq(s, 1, Len(s) - 1)) ELSE s

\* A trim() that returns its argument.
Trim_Identity(s) == s

Trim(s) == TrimEnd(TrimStart(s))

\* Message ids: the platform's row ids and `temp-${Date.now()}`.
NoId == [kind |-> "none", n |-> 0]
RowId(k) == [kind |-> "row", n |-> k]
TempId(t) == [kind |-> "temp", n |-> t]

MkRow(i, s, c) == [id |-> i, sender_id |-> s, content |-> c]
\* A list entry: a row, with or without the sender object attached.
WithSender(row, attached) ==
    [id |-> row.id, sender_id |-> row.sender_id, content |-> row.content,
     sender |-> attached]

OtherUserRow(k) == MkRow(RowId(k), "u2", <<"o">>)

\* Storage keys: `${Date.now()}-${file.name}`.
NoKey == [t |-> -1, name |-> ""]
FileName(t) == [t |-> t, name |-> "f"]

getPublicUrl_NoKey(key) == [bucket |-> "chat-attachments", path |-> NoKey]

getPublicUrl(key) == [bucket |-> "chat-attachments", path |-> key]

NoSend == [tempId |-> NoId, content |-> <<>>, row |-> NoId, stage |-> "none"]

HasId(msgs, i) == \E j \in 1..Len(msgs) : msgs[j].id = i
Count(msgs, i) == Cardinality({j \in 1..Len(msgs) : msgs[j].id = i})

\* What GroupChat returns.
ChatView ==
    IF channelLoading THEN "initializing"
    ELSE IF chatError # Null /\ channel = Null THEN "error-screen"
    ELSE "chat"

\* useState / useRef initial values.
ChatMounted ==
    /\ messages = <<>>
    /\ newMessage = <<>>
    /\ chatLoading = FALSE
    /\ channel = Null
    /\ chatError = Null
    /\ channelLoading = TRUE
    /\ sending = FALSE
    /\ subscriptionRef = "none"
    /\ messageIdsRef = {}
    /\ chatUnmounted = FALSE

ChatFlightIdle ==
    /\ sendCall = NoSend
    /\ uploadPc = "idle"
    /\ uploadKey = NoKey
    /\ storageKeys = {}
    /\ attachmentRows = {}
    /\ realtimeQueue = <<>>
    /\ senderLookups = {}
    /\ ackedRows = {}
    /\ echoedRows = {}
    /\ now = 0

\* The chat as the other views leave it.
ChatIdle ==
    /\ ChatMounted
    /\ ChatFlightIdle
    /\ initPc = "idle"
    /\ channelsDb = FALSE
    /\ messagesDb = <<>>

\* A row inserted into messages, and its INSERT event on its way to a
\* joined subscription.
InsertRow(row) ==
    /\ messagesDb' = Append(messagesDb, row)
    /\ realtimeQueue' = IF subscriptionRef = "joined"
                        THEN Append(realtimeQueue, row)
                        ELSE realtimeQueue

\* fetchMessages up to its await.
StartFetchMessages ==
    /\ chatLoading' = TRUE
    /\ chatError' = Null
    /\ initPc' = "fetch"

\* initializeChat: the group channel exists.
InitChannelFound ==
    /\ initPc = "lookup"
    /\ channelsDb
    /\ channel' = "group"
    /\ StartFetchMessages
    /\ UNCHANGED <<messages, newMessage, channelLoading, sending,
                   subscriptionRef, messageIdsRef, chatFlightVars,
                   channelsDb, messagesDb, chatUnmounted,
                   otherThanChat>>

\* initializeChat: no channel came back (none exists, or the lookup
\* answered an error); the insert of a new one is issued.
InitChannelMissing ==
    /\ initPc = "lookup"
    /\ initPc' = "create"
    /\ UNCHANGED <<chatStateVars, chatFlightVars, channelsDb, messagesDb,
                   chatUnmounted,
                   otherThanChat>>

InitCreateOk ==
    /\ initPc = "create"
    /\ channelsDb' = TRUE
    /\ channel' = "group"
    /\ StartFetchMessages
    /\ UNCHANGED <<messages, newMessage, channelLoading, sending,
                   subscriptionRef, messageIdsRef, chatFlightVars,
                   messagesDb, chatUnmounted,
                   otherThanChat>>

InitCreateError ==
    /\ initPc = "create"
    /\ chatError' =
        "Unable to create chat channel. Please check your permissions."
    /\ channelLoading' = FALSE
    /\ initPc' = "idle"
    /\ UNCHANGED <<messages, newMessage, chatLoading, channel, sending,
                   subscriptionRef, messageIdsRef, chatFlightVars,
                   channelsDb, messagesDb, chatUnmounted,
                   otherThanChat>>

\* initializeChat: one of its requests throws.
InitThrows ==
    /\ initPc \in {"lookup", "create"}
    /\ chatError' =
        "Failed to initialize chat. Please check your connection and try again."
    /\ channelLoading' = FALSE
    /\ initPc' = "idle"
    /\ UNCHANGED <<messages, newMessage, chatLoading, channel, sending,
                   subscriptionRef, messageIdsRef, chatFlightVars,
                   channelsDb, messagesDb, chatUnmounted,
                   otherThanChat>>

SubscribeToMessages_StaysLoading(subscribes) ==
    /\ subscriptionRef' = IF subscribes THEN "joining" ELSE subscriptionRef
    /\ channelLoading' = channelLoading
    /\ initPc' = "idle"

\* subscribeToMessages, and the end of initializeChat.
SubscribeToMessages(subscribes) ==
    /\ subscriptionRef' = IF subscribes THEN "joining" ELSE subscriptionRef
    /\ channelLoading' = FALSE
    /\ initPc' = "idle"

RealtimeUnavailable == "Real-time updates unavailable."

FetchedList(rows) == [j \in 1..Len(rows) |-> WithSender(rows[j], TRUE)]

\* A load that clears the seen-set and adds nothing to it.
SeenAfterLoad_Cleared(rows) == {}

\* messageIdsRef.current.clear(); messagesData.forEach(msg => ...add(msg.id))
SeenAfterLoad(rows) == {rows[j].id : j \in 1..Len(rows)}

\* fetchMessages: the rows come back; then subscribeToMessages.
FetchMessagesOk ==
    /\ initPc = "fetch"
    /\ messageIdsRef' = SeenAfterLoad(messagesDb)
    /\ messages' = FetchedList(messagesDb)
    /\ chatLoading' = FALSE
    /\ \E subscribes \in BOOLEAN :
        /\ SubscribeToMessages(subscribes)
        /\ chatError' = IF subscribes THEN chatError ELSE RealtimeUnavailable
    /\ UNCHANGED <<newMessage, channel, sending, chatFlightVars, channelsDb,
                   messagesDb, chatUnmounted,
                   otherThanChat>>

FetchMessagesErrors ==
    {"Chat feature is not available. Please contact an administrator.",
     "You do not have permission to view messages. Please check your role.",
     "Failed to load messages. Please try refreshing."}

\* fetchMessages: an error comes back or the request throws; then
\* subscribeToMessages.
FetchMessagesError ==
    /\ initPc = "fetch"
    /\ messages' = <<>>
    /\ chatLoading' = FALSE
    /\ \E e \in FetchMessagesErrors, subscribes \in BOOLEAN :
        /\ SubscribeToMessages(subscribes)
        /\ chatError' = IF subscribes THEN e ELSE RealtimeUnavailable
    /\ UNCHANGED <<newMessage, channel, sending, messageIdsRef,
                   chatFlightVars, channelsDb, messagesDb, chatUnmounted,
                   otherThanChat>>

\* The cleanup of the mount effect: the subscription the ref holds at that
\* moment is unsubscribed.  Requests in flight go on, and what they set
\* afterwards is no longer rendered.
GroupChatUnmount ==
    /\ ~chatUnmounted
    /\ chatUnmounted' = TRUE
    /\ subscriptionRef' =
        IF subscriptionRef = "none" THEN "none" ELSE "closed"
    /\ UNCHANGED <<messages, newMessage, chatLoading, channel, chatError,
                   channelLoading, sending, messageIdsRef, initPc,
                   chatFlightVars, channelsDb, messagesDb, otherThanChat>>

\* The subscribe callback.
SubscriptionStatus ==
    /\ subscriptionRef = "joining"
    /\ \/ /\ subscriptionRef' = "joined"
          /\ UNCHANGED chatError
       \/ /\ subscriptionRef' = "errored"
          /\ chatError' = RealtimeUnavailable
    /\ UNCHANGED <<messages, newMessage, chatLoading, channel,
                   channelLoading, sending, messageIdsRef, initPc,
                   chatFlightVars, channelsDb, messagesDb, chatUnmounted,
                   otherThanChat>>

RetryInitialization ==
    /\ ~chatUnmounted
    /\ ChatView = "error-screen"
    /\ initPc = "idle"
    /\ chatError' = Null
    /\ channelLoading' = TRUE
    /\ initPc' = "lookup"
    /\ UNCHANGED <<messages, newMessage, chatLoading, channel, sending,
                   subscriptionRef, messageIdsRef, chatFlightVars,
                   channelsDb, messagesDb, chatUnmounted,
                   otherThanChat>>

\* The postgres_changes callback, for the oldest event on its way.
RealtimeInsert ==
    /\ realtimeQueue # <<>>
    /\ LET row == Head(realtimeQueue) IN
        /\ realtimeQueue' = Tail(realtimeQueue)
        /\ echoedRows' = echoedRows \cup {row.id}
        /\ IF row.id \in messageIdsRef
           THEN UNCHANGED <<messageIdsRef, senderLookups>>
           ELSE /\ messageIdsRef' = messageIdsRef \cup {row.id}
                /\ senderLookups' = senderLookups \cup {row}
    /\ UNCHANGED <<messages, newMessage, chatLoading, channel, chatError,
                   channelLoading, sending, subscriptionRef, initPc,
                   sendCall, uploadVars, ackedRows, now, channelsDb,
                   messagesDb, chatUnmounted,
                   otherThanChat>>

AppendUnlessPresent_Prepend(prev, entry) ==
    IF HasId(prev, entry.id) THEN prev ELSE <<entry>> \o prev

AppendUnlessPresent(prev, entry) ==
    IF HasId(prev, entry.id) THEN prev ELSE Append(prev, entry)

\* fetchSenderInfo: the lookup of the sender answers (a sender, none) or
\* throws.
FetchSenderInfo ==
    \E row \in senderLookups, outcome \in {"sender", "none", "throws"} :
        /\ senderLookups' = senderLookups \ {row}
        /\ messages' =
            AppendUnlessPresent(messages,
                                WithSender(row, outcome = "sender"))
        /\ UNCHANGED <<newMessage, chatLoading, channel, chatError,
                       channelLoading, sending, subscriptionRef,
                       messageIdsRef, initPc, sendCall, uploadVars,
                       realtimeQueue, ackedRows, echoedRows, now,
                       channelsDb, messagesDb, chatUnmounted,
                   otherThanChat>>

\* The compose field; it is disabled while sending.
SetNewMessage ==
    /\ ~chatUnmounted
    /\ ChatView = "chat"
    /\ ~sending
    /\ \E t \in Drafts : newMessage' = t
    /\ UNCHANGED <<messages, chatLoading, channel, chatError, channelLoading,
                   sending, subscriptionRef, messageIdsRef, initPc,
                   chatFlightVars, channelsDb, messagesDb, chatUnmounted,
                   otherThanChat>>

\* sendMessage up to its await (Send button, or Enter in the compose field).
SendMessage ==
    /\ ~chatUnmounted
    /\ ChatView = "chat"
    /\ ~sending
    /\ IF Trim(newMessage) = <<>> \/ channel = Null \/ user = NoUser
       THEN UNCHANGED <<messages, newMessage, sending, chatError, sendCall>>
       ELSE LET messageContent == Trim(newMessage)
                tempId == TempId(now)
            IN  /\ messages' =
                    Append(messages,
                           WithSender(MkRow(tempId, user.id, messageContent),
                                      TRUE))
                /\ newMessage' = <<>>
                /\ sending' = TRUE
                /\ chatError' = Null
                /\ sendCall' = [tempId |-> tempId, content |-> messageContent,
                                row |-> NoId, stage |-> "issued"]
    /\ UNCHANGED <<chatLoading, channel, channelLoading, subscriptionRef,
                   messageIdsRef, initPc, uploadVars, realtimeQueue,
                   senderLookups, ackedRows, echoedRows, now, channelsDb,
                   messagesDb, chatUnmounted,
                   otherThanChat>>

\* The platform applies the insert of sendMessage.
SendInsertApplied ==
    /\ sendCall.stage = "issued"
    /\ Len(messagesDb) < MaxRows
    /\ LET row == MkRow(RowId(Len(messagesDb) + 1), user.id, sendCall.content)
       IN  /\ InsertRow(row)
           /\ sendCall' = [sendCall EXCEPT !.row = row.id,
                                           !.stage = "inserted"]
    /\ UNCHANGED <<chatStateVars, initPc, uploadVars, senderLookups, ackedRows,
                   echoedRows, now, channelsDb, chatUnmounted,
                   otherThanChat>>

\* A confirmation that leaves the temporary entry where it is.
ReplaceOptimistic_Keep(prev, tempId, data) == prev

ReplaceOptimistic(prev, tempId, data) ==
    [j \in 1..Len(prev) |-> IF prev[j].id = tempId THEN data ELSE prev[j]]

\* sendMessage: the inserted row comes back.
SendResponseOk ==
    /\ sendCall.stage = "inserted"
    /\ messages' =
        ReplaceOptimistic(messages, sendCall.tempId,
                          WithSender(MkRow(sendCall.row, user.id,
                                           sendCall.content), TRUE))
    /\ messageIdsRef' = messageIdsRef \cup {sendCall.row}
    /\ sending' = FALSE
    /\ sendCall' = NoSend
    /\ ackedRows' = ackedRows \cup {sendCall.row}
    /\ UNCHANGED <<newMessage, chatLoading, channel, chatError,
                   channelLoading, subscriptionRef, initPc, uploadVars,
                   realtimeQueue, senderLookups, echoedRows, now,
                   channelsDb, messagesDb, chatUnmounted,
                   otherThanChat>>

RemoveOptimistic_Keep(prev, tempId) == prev

RemoveOptimistic(prev, tempId) ==
    SelectSeq(prev, LAMBDA msg : msg.id # tempId)

SendErrors ==
    {"You do not have permission to send messages. Please check your role.",
     "Failed to send message. Please try again."}

\* The error branch and the catch of sendMessage.
SendRollback(e) ==
    /\ messages' = RemoveOptimistic(messages, sendCall.tempId)
    /\ newMessage' = sendCall.content
    /\ chatError' = e
    /\ sending' = FALSE
    /\ sendCall' = NoSend

\* sendMessage: the insert is refused.
SendResponseError ==
    /\ sendCall.stage = "issued"
    /\ \E e \in SendErrors : SendRollback(e)
    /\ UNCHANGED <<chatLoading, channel, channelLoading, subscriptionRef,
                   messageIdsRef, initPc, uploadVars, realtimeQueue,
                   senderLookups, ackedRows, echoedRows, now, channelsDb,
                   messagesDb, chatUnmounted,
                   otherThanChat>>

\* sendMessage: the request throws, the insert applied or not.
SendThrows ==
    /\ sendCall.stage \in {"issued", "inserted"}
    /\ SendRollback("Failed to send message. Please try again.")
    /\ UNCHANGED <<chatLoading, channel, channelLoading, subscriptionRef,
                   messageIdsRef, initPc, uploadVars, realtimeQueue,
                   senderLookups, ackedRows, echoedRows, now, channelsDb,
                   messagesDb, chatUnmounted,
                   otherThanChat>>

\* handleFileUpload up to the upload; the attach button is disabled while
\* sending.
FileUploadStart ==
    /\ ~chatUnmounted
    /\ ChatView = "chat"
    /\ ~sending
    /\ channel # Null
    /\ user # NoUser
    /\ sending' = TRUE
    /\ chatError' = Null
    /\ uploadPc' = "upload"
    /\ uploadKey' = FileName(now)
    /\ UNCHANGED <<storageKeys, attachmentRows, messages, newMessage, chatLoading, channel,
                   channelLoading, subscriptionRef, messageIdsRef, initPc,
                   sendCall, realtimeQueue, senderLookups, ackedRows,
                   echoedRows, now, channelsDb, messagesDb, chatUnmounted,
                   otherThanChat>>

\* handleFileUpload: the file is stored; the message insert is issued.
FileUploadStored ==
    /\ uploadPc = "upload"
    /\ uploadPc' = "message"
    /\ storageKeys' = storageKeys \cup {uploadKey}
    /\ UNCHANGED <<uploadKey, attachmentRows, chatStateVars, initPc, sendCall, realtimeQueue,
                   senderLookups, ackedRows, echoedRows, now, channelsDb,
                   messagesDb, chatUnmounted,
                   otherThanChat>>

\* handleFileUpload: the message insert is applied and answered.
FileMessageSent ==
    /\ uploadPc = "message"
    /\ Len(messagesDb) < MaxRows
    /\ InsertRow(MkRow(RowId(Len(messagesDb) + 1), user.id, <<"f">>))
    /\ attachmentRows' =
        attachmentRows \cup {[id |-> RowId(Len(messagesDb) + 1),
                              attachment_url |-> getPublicUrl(uploadKey)]}
    /\ sending' = FALSE
    /\ uploadPc' = "idle"
    /\ uploadKey' = NoKey
    /\ UNCHANGED <<storageKeys, messages, newMessage, chatLoading, channel, chatError,
                   channelLoading, subscriptionRef, messageIdsRef, initPc,
                   sendCall, senderLookups, ackedRows, echoedRows, now,
                   channelsDb, chatUnmounted,
                   otherThanChat>>

\* handleFileUpload: the upload or the message insert fails or throws.
FileUploadFails ==
    /\ uploadPc \in {"upload", "message"}
    /\ chatError' \in
        IF uploadPc = "upload"
        THEN {"Failed to upload file. Please try again."}
        ELSE {"File uploaded but failed to send message. Please try again.",
              "Failed to upload file. Please try again."}
    /\ sending' = FALSE
    /\ uploadPc' = "idle"
    /\ uploadKey' = NoKey
    /\ UNCHANGED <<storageKeys, attachmentRows,
                   messages, newMessage, chatLoading, channel,
                   channelLoading, subscriptionRef, messageIdsRef, initPc,
                   sendCall, realtimeQueue, senderLookups, ackedRows,
                   echoedRows, now, channelsDb, messagesDb, chatUnmounted,
                   otherThanChat>>

\* Another member's message reaches the table.
OtherUserInsert ==
    /\ Len(messagesDb) < MaxRows
    /\ InsertRow(OtherUserRow(Len(messagesDb) + 1))
    /\ UNCHANGED <<chatStateVars, initPc, sendCall, uploadVars, senderLookups,
                   ackedRows, echoedRows, now, channelsDb, chatUnmounted,
                   otherThanChat>>

\* Date.now() moves on.
ClockTick ==
    /\ now < MaxNow
    /\ now' = now + 1
    /\ UNCHANGED <<chatStateVars, initPc, sendCall, uploadVars, realtimeQueue,
                   senderLookups, ackedRows, echoedRows, channelsDb,
                   messagesDb, chatUnmounted,
                   otherThanChat>>

(***************************************************************************)
(* AgencyChat                                                              *)
(***************************************************************************)
\* Channel identifiers, as text: a prefix and the rest.
NoChannel == [prefix |-> "", rest |-> Null]
\* channels.id of the agency's channel row: a generated uuid.
AgencyChannelRowId == [prefix |-> "", rest |-> "c1"]
\* `agency-${user.agency_id}`
AgencyChannelKey(agency_id) == [prefix |-> "agency-", rest |-> agency_id]

AgencyRow(k, c, s) == [id |-> RowId(k), channel_id |-> c, sender_id |-> s]
AgencyEntry(row, attached) ==
    [id |-> row.id, channel_id |-> row.channel_id,
     sender_id |-> row.sender_id, sender |-> attached]

\* What AgencyChat returns.
AgencyChatView ==
    IF user.agency_id = Null THEN "no-agency"
    ELSE IF agencyLoading THEN "loading"
    ELSE "chat"

\* useState initial values; nothing requested.
AgencyChatIdle ==
    /\ agencyMessages = <<>>
    /\ agencyNewMessage = <<>>
    /\ agencyLoading = FALSE
    /\ agencyChannel = NoChannel
    /\ agencyRequests = {}
    /\ agencySends = 0
    /\ agencySubscribed = FALSE
    /\ agencyDb = <<>>
    /\ agencyQueue = <<>>
    /\ agencyLookups = {}

\* A row inserted into messages; its INSERT event reaches the view when the
\* subscription's filter matches the row's channel_id.
AgencyInsertRow(row) ==
    /\ agencyDb' = Append(agencyDb, row)
    /\ agencyQueue' =
        IF agencySubscribed /\ row.channel_id = AgencyChannelKey(user.agency_id)
        THEN Append(agencyQueue, row)
        ELSE agencyQueue

\* fetchChannel: the agency's channel row comes back.
AgencyFetchChannelOk ==
    /\ "channel" \in agencyRequests
    /\ agencyRequests' = agencyRequests \ {"channel"}
    /\ agencyChannel' = AgencyChannelRowId
    /\ UNCHANGED <<agencyMessages, agencyNewMessage, agencyLoading,
                   agencySends, agencySubscribed, agencyDb, agencyQueue,
                   agencyLookups, otherThanAgencyChat>>

\* fetchChannel: single() answers an error (no row, several rows) or throws.
AgencyFetchChannelError ==
    /\ "channel" \in agencyRequests
    /\ agencyRequests' = agencyRequests \ {"channel"}
    /\ UNCHANGED <<agencyMessages, agencyNewMessage, agencyLoading,
                   agencyChannel, agencySends, agencySubscribed, agencyDb,
                   agencyQueue, agencyLookups, otherThanAgencyChat>>

AgencyLoaded(rows, key) ==
    LET matching == SelectSeq(rows, LAMBDA row : row.channel_id = key)
    IN  [j \in 1..Len(matching) |-> AgencyEntry(matching[j], TRUE)]

\* fetchMessages: the rows of channel `agency-${user.agency_id}` come back.
AgencyFetchMessagesOk ==
    /\ "messages" \in agencyRequests
    /\ agencyRequests' = agencyRequests \ {"messages"}
    /\ agencyMessages' =
        AgencyLoaded(agencyDb, AgencyChannelKey(user.agency_id))
    /\ agencyLoading' = FALSE
    /\ UNCHANGED <<agencyNewMessage, agencyChannel, agencySends,
                   agencySubscribed, agencyDb, agencyQueue, agencyLookups,
                   otherThanAgencyChat>>

AgencyFetchMessagesError ==
    /\ "messages" \in agencyRequests
    /\ agencyRequests' = agencyRequests \ {"messages"}
    /\ agencyLoading' = FALSE
    /\ UNCHANGED <<agencyMessages, agencyNewMessage, agencyChannel,
                   agencySends, agencySubscribed, agencyDb, agencyQueue,
                   agencyLookups, otherThanAgencyChat>>

\* The postgres_changes callback, for the oldest event on its way.
AgencyRealtimeInsert ==
    /\ agencyQueue # <<>>
    /\ agencyQueue' = Tail(agencyQueue)
    /\ agencyLookups' = agencyLookups \cup {Head(agencyQueue)}
    /\ UNCHANGED <<agencyMessages, agencyNewMessage, agencyLoading,
                   agencyChannel, agencyRequests, agencySends,
                   agencySubscribed, agencyDb, otherThanAgencyChat>>

AgencyAppendSender(prev, row, outcome) ==
    IF outcome = "sender" THEN Append(prev, AgencyEntry(row, TRUE)) ELSE prev

\* fetchSenderInfo: the lookup of the sender answers (a sender, none) or
\* throws.
AgencyFetchSenderInfo ==
    \E row \in agencyLookups, outcome \in {"sender", "none", "throws"} :
        /\ agencyLookups' = agencyLookups \ {row}
        /\ agencyMessages' = AgencyAppendSender(agencyMessages, row, outcome)
        /\ UNCHANGED <<agencyNewMessage, agencyLoading, agencyChannel,
                       agencyRequests, agencySends, agencySubscribed,
                       agencyDb, agencyQueue, otherThanAgencyChat>>

AgencySetNewMessage ==
    /\ AgencyChatView = "chat"
    /\ \E t \in Drafts : agencyNewMessage' = t
    /\ UNCHANGED <<agencyMessages, agencyLoading, agencyChannel,
                   agencyRequests, agencySends, agencySubscribed, agencyDb,
                   agencyQueue, agencyLookups, otherThanAgencyChat>>

\* sendMessage up to its await.
AgencySendMessage ==
    /\ AgencyChatView = "chat"
    /\ agencySends + Len(agencyDb) < MaxRows
    /\ agencySends' =
        IF Trim(agencyNewMessage) = <<>> \/ agencyChannel = NoChannel
        THEN agencySends
        ELSE agencySends + 1
    /\ UNCHANGED <<agencyMessages, agencyNewMessage, agencyLoading,
                   agencyChannel, agencyRequests, agencySubscribed, agencyDb,
                   agencyQueue, agencyLookups, otherThanAgencyChat>>

\* sendMessage: the row is inserted with channel_id: channel.id.
AgencySendOk ==
    /\ agencySends > 0
    /\ agencySends' = agencySends - 1
    /\ AgencyInsertRow(AgencyRow(Len(agencyDb) + 1, agencyChannel, user.id))
    /\ agencyNewMessage' = <<>>
    /\ UNCHANGED <<agencyMessages, agencyLoading, agencyChannel,
                   agencyRequests, agencySubscribed, agencyLookups,
                   otherThanAgencyChat>>

AgencySendError ==
    /\ agencySends > 0
    /\ agencySends' = agencySends - 1
    /\ UNCHANGED <<agencyMessages, agencyNewMessage, agencyLoading,
                   agencyChannel, agencyRequests, agencySubscribed, agencyDb,
                   agencyQueue, agencyLookups, otherThanAgencyChat>>

\* handleFileUpload: it sets no state; when the upload and the insert
\* succeed a row with channel_id: channel.id is in the table.
AgencyHandleFileUpload ==
    /\ AgencyChatView = "chat"
    /\ agencyChannel # NoChannel
    /\ Len(agencyDb) + agencySends < MaxRows
    /\ AgencyInsertRow(AgencyRow(Len(agencyDb) + 1, agencyChannel, user.id))
    /\ UNCHANGED <<agencyMessages, agencyNewMessage, agencyLoading,
                   agencyChannel, agencyRequests, agencySends,
                   agencySubscribed, agencyLookups, otherThanAgencyChat>>

\* A row written by another client, to either identifier.
AgencyOtherInsert ==
    /\ Len(agencyDb) + agencySends < MaxRows
    /\ \E c \in {AgencyChannelRowId, AgencyChannelKey("a1")} :
        AgencyInsertRow(AgencyRow(Len(agencyDb) + 1, c, "u2"))
    /\ UNCHANGED <<agencyMessages, agencyNewMessage, agencyLoading,
                   agencyChannel, agencyRequests, agencySends,
                   agencySubscribed, agencyLookups, otherThanAgencyChat>>

(***************************************************************************)
(* Settings                                                                *)
(***************************************************************************)
MaxMessageTimers == 2

DeleteFailed == "Failed to delete account. Please try again."
PasswordFailed ==
    "Failed to update password. Please check your current password and try again."
PasswordUpdated == "Password updated successfully!"
ProfileFailed == "Failed to update profile. Please try again."
ProfileUpdated == "Profile updated successfully!"

\* The name the profile form submits.
ProfileFormData == [name |-> "n2"]

\* useState initial values; the account as it is on the platform.
SettingsIdle ==
    /\ settingsLoading = FALSE
    /\ settingsMessage = Null
    /\ showPasswordForm = FALSE
    /\ settingsPc = "idle"
    /\ messageTimers = 0
    /\ profileDeleted = FALSE
    /\ identityDeleted = FALSE
    /\ sessionEnded = FALSE
    /\ location = "/settings"

\* The forms and buttons are rendered for a user, and the submit and delete
\* buttons are disabled while loading.
SettingsOffered ==
    /\ user # NoUser
    /\ location = "/settings"
    /\ ~settingsLoading
    /\ settingsPc = "idle"

ShowPasswordForm ==
    /\ user # NoUser
    /\ location = "/settings"
    /\ showPasswordForm' = ~showPasswordForm
    /\ UNCHANGED <<settingsLoading, settingsMessage, settingsPc,
                   messageTimers, profileDeleted, identityDeleted,
                   sessionEnded, location, otherThanSettings>>

\* onPasswordSubmit up to its await.
OnPasswordSubmit ==
    /\ SettingsOffered
    /\ showPasswordForm
    /\ settingsLoading' = TRUE
    /\ settingsMessage' = Null
    /\ settingsPc' = "password"
    /\ UNCHANGED <<showPasswordForm, messageTimers, profileDeleted,
                   identityDeleted, sessionEnded, location,
                   otherThanSettings>>

PasswordUpdateOk ==
    /\ settingsPc = "password"
    /\ messageTimers < MaxMessageTimers
    /\ settingsMessage' = PasswordUpdated
    /\ messageTimers' = messageTimers + 1
    /\ showPasswordForm' = FALSE
    /\ settingsLoading' = FALSE
    /\ settingsPc' = "idle"
    /\ UNCHANGED <<profileDeleted, identityDeleted, sessionEnded, location,
                   otherThanSettings>>

PasswordUpdateFails ==
    /\ settingsPc = "password"
    /\ settingsMessage' = PasswordFailed
    /\ settingsLoading' = FALSE
    /\ settingsPc' = "idle"
    /\ UNCHANGED <<showPasswordForm, messageTimers, profileDeleted,
                   identityDeleted, sessionEnded, location,
                   otherThanSettings>>

\* onProfileSubmit up to its await of the update of the users row.
OnProfileSubmit ==
    /\ SettingsOffered
    /\ settingsLoading' = TRUE
    /\ settingsMessage' = Null
    /\ settingsPc' = "profile"
    /\ UNCHANGED <<showPasswordForm, messageTimers, profileDeleted,
                   identityDeleted, sessionEnded, location,
                   otherThanSettings>>

\* onProfileSubmit from `await getCurrentUser()` on: the refresh, then the
\* success message, its timer and the finally.
RefreshAndReport ==
    /\ GetCurrentUserCall
    /\ IF gcuPc' = "idle"
       THEN /\ settingsMessage' = ProfileUpdated
            /\ messageTimers' = messageTimers + 1
            /\ settingsLoading' = FALSE
            /\ settingsPc' = "idle"
       ELSE /\ settingsPc' = "refresh"
            /\ UNCHANGED <<settingsMessage, messageTimers, settingsLoading>>

\* The update of the users row answers without an error; the email is
\* then either unchanged or sent to auth.updateUser.
ProfileRowUpdated ==
    /\ settingsPc = "profile"
    /\ messageTimers < MaxMessageTimers
    /\ profileRow' = IF profileRow = NoUser THEN profileRow
                     ELSE MergeUpdates(profileRow, ProfileFormData)
    /\ \E emailChanged \in BOOLEAN :
          IF emailChanged
          THEN /\ settingsPc' = "email"
               /\ UNCHANGED <<authStoreVars, gcuPc, settingsMessage,
                              messageTimers, settingsLoading>>
          ELSE RefreshAndReport
    /\ UNCHANGED <<showPasswordForm, profileDeleted, identityDeleted,
                   sessionEnded, location, registeredRole, signInPc,
                   signOutCall, eventLookups, signUpVars, updateProfileVars,
                   signedOut, rbacVars, pageVars, chatVars, agencyChatVars,
                   accountingVars>>

\* auth.updateUser({ email }) answers without an error.
ProfileEmailUpdated ==
    /\ settingsPc = "email"
    /\ messageTimers < MaxMessageTimers
    /\ RefreshAndReport
    /\ UNCHANGED <<showPasswordForm, profileDeleted, identityDeleted,
                   sessionEnded, location, registeredRole, profileRow,
                   signInPc, signOutCall, eventLookups, signUpVars,
                   updateProfileVars, signedOut, rbacVars, pageVars,
                   chatVars, agencyChatVars, accountingVars>>

\* One of the two updates answers with an error or throws: the catch.
ProfileUpdateFails ==
    /\ settingsPc \in {"profile", "email"}
    /\ settingsMessage' = ProfileFailed
    /\ settingsLoading' = FALSE
    /\ settingsPc' = "idle"
    /\ UNCHANGED <<showPasswordForm, messageTimers, profileDeleted,
                   identityDeleted, sessionEnded, location,
                   otherThanSettings>>

\* setTimeout(() => setMessage(null), 3000)
MessageTimeout ==
    /\ messageTimers > 0
    /\ messageTimers' = messageTimers - 1
    /\ settingsMessage' = Null
    /\ UNCHANGED <<settingsLoading, showPasswordForm, settingsPc,
                   profileDeleted, identityDeleted, sessionEnded, location,
                   otherThanSettings>>

\* handleDeleteAccount, confirmed, up to the delete of the users row.
HandleDeleteAccount ==
    /\ SettingsOffered
    /\ settingsLoading' = TRUE
    /\ settingsMessage' = Null
    /\ settingsPc' = "deleteProfile"
    /\ UNCHANGED <<showPasswordForm, messageTimers, profileDeleted,
                   identityDeleted, sessionEnded, location,
                   otherThanSettings>>

\* The users row is deleted; auth.admin.deleteUser is called.
DeleteProfileOk ==
    /\ settingsPc = "deleteProfile"
    /\ profileDeleted' = TRUE
    /\ settingsPc' = "deleteIdentity"
    /\ UNCHANGED <<settingsLoading, settingsMessage, showPasswordForm,
                   messageTimers, identityDeleted, sessionEnded, location,
                   otherThanSettings>>

\* The auth identity is deleted; auth.signOut is called.
DeleteIdentityOk ==
    /\ settingsPc = "deleteIdentity"
    /\ identityDeleted' = TRUE
    /\ settingsPc' = "signOut"
    /\ UNCHANGED <<settingsLoading, settingsMessage, showPasswordForm,
                   messageTimers, profileDeleted, sessionEnded, location,
                   otherThanSettings>>

\* auth.signOut returns: done, or { error }, which is not looked at; then
\* window.location.href = '/login'.
DeleteSignOutReturns ==
    /\ settingsPc = "signOut"
    /\ sessionEnded' \in BOOLEAN
    /\ location' = "/login"
    /\ settingsPc' = "redirected"
    /\ UNCHANGED <<settingsLoading, settingsMessage, showPasswordForm,
                   messageTimers, profileDeleted, identityDeleted,
                   otherThanSettings>>

\* The catch of handleDeleteAccount: a step returned an error (the two
\* deletes) or threw.
DeleteAccountCatch ==
    /\ settingsPc \in {"deleteProfile", "deleteIdentity", "signOut"}
    /\ settingsMessage' = DeleteFailed
    /\ settingsLoading' = FALSE
    /\ settingsPc' = "idle"
    /\ UNCHANGED <<showPasswordForm, messageTimers, profileDeleted,
                   identityDeleted, sessionEnded, location,
                   otherThanSettings>>

(***************************************************************************)
(* pages/AgencyAccounting                                                  *)
(***************************************************************************)
MaxLedgerRows == 3
MaxLedgerFetches == 2
MaxLedgerWrites == 1
MaxDate == 2

NoTransaction ==
    [id |-> 0, agency_id |-> Null, added_by |-> Null, description |-> Null,
     type |-> Null, date |-> 0]

\* The values the form passes to onSubmit once the schema accepts them.
AccountingFormData ==
    [description : {"d1", "d2"}, type : {"income"}, date : 1..MaxDate]

\* The rows of agency_accounting before the view is opened: one of
\* another agency and one of the user's agency added by another user.
InitialLedger ==
    { [id |-> 1, agency_id |-> "a2", added_by |-> "u2",
       description |-> "d1", type |-> "income", date |-> 1],
      [id |-> 2, agency_id |-> "a1", added_by |-> "u2",
       description |-> "d2", type |-> "expense", date |-> 2] }

LedgerIds(db) == { r.id : r \in db }

NextLedgerId(db) ==
    1 + CHOOSE n \in LedgerIds(db) \cup {0} :
            \A m \in LedgerIds(db) \cup {0} : m <= n

FetchedTransactions_AllAgencies(agency_id) == ledgerDb

\* .from('agency_accounting').select(...).eq('agency_id', user.agency_id)
FetchedTransactions(agency_id) ==
    { r \in ledgerDb : r.agency_id = agency_id }

\* .order('date', { ascending: false }): the orders the query may answer
\* a set of rows in.
DateDescending(rows) ==
    { s \in [1..Cardinality(rows) -> rows] :
        /\ \A i, j \in DOMAIN s : i # j => s[i] # s[j]
        /\ \A i, j \in DOMAIN s : i < j => s[i].date >= s[j].date }

\* onSubmit: the row of the insert.
NewTransaction(u, data) ==
    [agency_id |-> u.agency_id, added_by |-> u.id,
     description |-> data.description, type |-> data.type,
     date |-> data.date]

\* onSubmit: the update leaves agency_id and added_by as they are.
UpdatedTransaction(row, data) ==
    [row EXCEPT !.description = data.description, !.type = data.type,
                !.date = data.date]

\* What AgencyAccounting returns.
AccountingView ==
    IF user.agency_id = Null THEN "no-agency"
    ELSE IF acctLoading THEN "loading"
    ELSE "table"

\* useState initial values; nothing requested.
AccountingIdle ==
    /\ transactions = <<>>
    /\ acctLoading = FALSE
    /\ acctShowForm = FALSE
    /\ editingTransaction = NoTransaction
    /\ ledgerFetches = <<>>
    /\ ledgerWrites = {}
    /\ ledgerDb = InitialLedger

\* fetchTransactions up to its await.
StartFetchTransactions(u) ==
    IF u.agency_id = Null
    THEN UNCHANGED <<acctLoading, ledgerFetches>>
    ELSE /\ acctLoading' = TRUE
         /\ ledgerFetches' = Append(ledgerFetches, u.agency_id)

\* The profile row replaces the basic user built from the cached session,
\* and the effect on user?.agency_id runs again.
AccountingUserResolved ==
    /\ user.agency_id = Null
    /\ user' = [user EXCEPT !.agency_id = "a1"]
    /\ StartFetchTransactions(user')
    /\ UNCHANGED <<transactions, acctShowForm, editingTransaction,
                   ledgerWrites, ledgerDb>>
    /\ UNCHANGED <<loading, error, initialized, localStorage, authFlightVars,
                   rbacVars, pageVars, chatVars, agencyChatVars,
                   settingsVars>>

\* The query of fetchTransactions answers with rows.
FetchTransactionsOk ==
    /\ \E i \in DOMAIN ledgerFetches :
          /\ transactions' \in
                DateDescending(FetchedTransactions(ledgerFetches[i]))
          /\ ledgerFetches' = RemoveAt(ledgerFetches, i)
    /\ acctLoading' = FALSE
    /\ UNCHANGED <<acctShowForm, editingTransaction, ledgerWrites, ledgerDb,
                   otherThanAccounting>>

\* The query of fetchTransactions answers with an error.
FetchTransactionsError ==
    /\ \E i \in DOMAIN ledgerFetches :
          ledgerFetches' = RemoveAt(ledgerFetches, i)
    /\ acctLoading' = FALSE
    /\ UNCHANGED <<transactions, acctShowForm, editingTransaction,
                   ledgerWrites, ledgerDb, otherThanAccounting>>

\* The New Transaction button.
ShowTransactionForm ==
    /\ AccountingView # "no-agency"
    /\ ~acctShowForm
    /\ acctShowForm' = TRUE
    /\ UNCHANGED <<transactions, acctLoading, editingTransaction,
                   ledgerFetches, ledgerWrites, ledgerDb,
                   otherThanAccounting>>

\* handleEdit, from a row of the table.
HandleEditTransaction ==
    /\ AccountingView = "table"
    /\ \E i \in DOMAIN transactions :
          editingTransaction' = transactions[i]
    /\ acctShowForm' = TRUE
    /\ UNCHANGED <<transactions, acctLoading, ledgerFetches, ledgerWrites,
                   ledgerDb, otherThanAccounting>>

\* handleCancel.
HandleCancelTransaction ==
    /\ AccountingView # "no-agency"
    /\ acctShowForm
    /\ acctShowForm' = FALSE
    /\ editingTransaction' = NoTransaction
    /\ UNCHANGED <<transactions, acctLoading, ledgerFetches, ledgerWrites,
                   ledgerDb, otherThanAccounting>>

\* onSubmit up to its await: an update of the edited row, or an insert.
OnSubmitTransaction ==
    /\ AccountingView # "no-agency"
    /\ acctShowForm
    /\ Cardinality(ledgerWrites) < MaxLedgerWrites
    /\ \E data \in AccountingFormData :
          IF user.agency_id = Null
          THEN UNCHANGED ledgerWrites
          ELSE IF editingTransaction # NoTransaction
          THEN ledgerWrites' = ledgerWrites \cup
                   {[op |-> "update", id |-> editingTransaction.id,
                     row |-> UpdatedTransaction(editingTransaction, data)]}
          ELSE /\ NextLedgerId(ledgerDb) <= MaxLedgerRows
               /\ ledgerWrites' = ledgerWrites \cup
                   {[op |-> "insert", id |-> 0,
                     row |-> [id |-> 0] @@ NewTransaction(user, data)]}
    /\ UNCHANGED <<transactions, acctLoading, acctShowForm,
                   editingTransaction, ledgerFetches, ledgerDb,
                   otherThanAccounting>>

\* handleDelete, confirmed, up to its await.
HandleDeleteTransaction ==
    /\ AccountingView = "table"
    /\ Cardinality(ledgerWrites) < MaxLedgerWrites
    /\ \E i \in DOMAIN transactions :
          ledgerWrites' = ledgerWrites \cup
              {[op |-> "delete", id |-> transactions[i].id,
                row |-> NoTransaction]}
    /\ UNCHANGED <<transactions, acctLoading, acctShowForm,
                   editingTransaction, ledgerFetches, ledgerDb,
                   otherThanAccounting>>

\* The table after a write is applied.
LedgerAfter(w) ==
    CASE w.op = "insert" ->
           ledgerDb \cup {[w.row EXCEPT !.id = NextLedgerId(ledgerDb)]}
      [] w.op = "update" ->
           { IF r.id = w.id
             THEN UpdatedTransaction(r, w.row)
             ELSE r : r \in ledgerDb }
      [] OTHER -> { r \in ledgerDb : r.id # w.id }

\* A write is applied and answered: onSubmit resets the form, and both
\* handlers call fetchTransactions.
LedgerWriteOk ==
    /\ Len(ledgerFetches) < MaxLedgerFetches
    /\ \E w \in ledgerWrites :
          /\ ledgerDb' = LedgerAfter(w)
          /\ ledgerWrites' = ledgerWrites \ {w}
          /\ IF w.op = "delete"
             THEN UNCHANGED <<acctShowForm, editingTransaction>>
             ELSE /\ acctShowForm' = FALSE
                  /\ editingTransaction' = NoTransaction
    /\ StartFetchTransactions(user)
    /\ UNCHANGED <<transactions, otherThanAccounting>>

\* A write answers with an error: the catch only logs.
LedgerWriteError ==
    /\ \E w \in ledgerWrites : ledgerWrites' = ledgerWrites \ {w}
    /\ UNCHANGED <<transactions, acctLoading, acctShowForm,
                   editingTransaction, ledgerFetches, ledgerDb,
                   otherThanAccounting>>

\* The views modelled apart from the pages and the group chat, at rest.
OtherViewsIdle ==
    /\ AgencyChatIdle
    /\ SettingsIdle
    /\ AccountingIdle

(***************************************************************************)
(* Specifications                                                          *)
(***************************************************************************)
\* The store as a view finds it once the identity is resolved.
AuthResolved ==
    /\ loading = FALSE
    /\ error = Null
    /\ initialized = TRUE
    /\ localStorage = <<ThemeEntry, SessionEntry>>
    /\ registeredRole = "core_member"
    /\ profileRow = NoUser
    /\ AuthFlightIdle

\* ---- utils/rbac ----
InitRbac ==
    /\ user \in ViewUsers \cup {NoUser}
    /\ AuthResolved
    /\ RbacIdle
    /\ PagesIdle
    /\ ChatIdle
    /\ OtherViewsIdle

NextRbac ==
    /\ \/ CallHasPermission
       \/ CallHasAnyPermission
       \/ CallHasAllPermissions
       \/ CallGetUserPermissions
       \/ CallCanAccessRoute
       \/ RenderDashboard
       \/ RenderDashboardGuarded
       \/ RenderLayout
    /\ UNCHANGED <<authStoreVars, authFlightVars, pageVars, chatVars,
                   otherViewVars>>

SpecRbac == InitRbac /\ [][NextRbac]_vars

\* ---- stores/authStore ----
InitAuth ==
    /\ AuthStoreInit
    /\ localStorage \in InitialStorages
    /\ registeredRole \in Roles
    /\ profileRow \in {NoUser, RegisteredProfile(registeredRole)}
    /\ AuthFlightIdle
    /\ RbacIdle
    /\ PagesIdle
    /\ ChatIdle
    /\ OtherViewsIdle

NextAuth ==
    \/ SignInStart
    \/ SignInAuthError
    \/ SignInAuthUser
    \/ SignInAuthNoUser
    \/ SignInProfile
    \/ \E i \in 1..MaxSignOutCalls : SignOutStart(i)
    \/ \E i \in 1..MaxSignOutCalls : SignOutTimeout(i)
    \/ \E i \in 1..MaxSignOutCalls : SignOutRemoteSettles(i)
    \/ \E i \in 1..MaxSignOutCalls : SignOutRemoteLate(i)
    \/ GetCurrentUserStart
    \/ GetCurrentUserIdentity
    \/ GetCurrentUserNoIdentity
    \/ GetCurrentUserThrows
    \/ GetCurrentUserProfile
    \/ SignedInCallback
    \/ AuthEventSignedIn
    \/ UpdateProfileStart
    \/ UpdateProfileOk
    \/ UpdateProfileError

SpecAuth == InitAuth /\ [][NextAuth]_vars

\* ---- the pages ----
InitPages ==
    /\ user \in ViewUsers \cup {NoUser}
    /\ AuthResolved
    /\ RbacIdle
    /\ route = "dashboard"
    /\ PagesMounted
    /\ journalDb = JournalRows
    /\ journalDeletes = {}
    /\ todosDb \in [TodoIds -> Statuses]
    /\ statusReqs = <<>>
    /\ ChatIdle
    /\ OtherViewsIdle

NextPages ==
    \/ Navigate
    \/ SetSearchTerm
    \/ FetchEntriesOk
    \/ FetchEntriesError
    \/ JournalHandleEdit
    \/ JournalHandleDelete
    \/ JournalDeleteOk
    \/ JournalDeleteError
    \/ JournalOpenForm
    \/ JournalHandleCancel
    \/ FetchLogsDone
    \/ FetchNoticesOk
    \/ FetchNoticesError
    \/ FetchTodosOk
    \/ FetchTodosError
    \/ HandleStatusChange
    \/ StatusUpdateOk
    \/ StatusUpdateError

SpecPages == InitPages /\ [][NextPages]_vars

\* ---- GroupChat ----
ChatUsers == {NoUser, MkUser("u1", "n1", "core_member", Null)}

\* The view just mounted: initializeChat has issued its channel lookup.
InitChat ==
    /\ user \in ChatUsers
    /\ AuthResolved
    /\ RbacIdle
    /\ PagesIdle
    /\ ChatMounted
    /\ ChatFlightIdle
    /\ initPc = "lookup"
    /\ channelsDb \in BOOLEAN
    /\ messagesDb \in {<<>>, <<OtherUserRow(1)>>}
    /\ OtherViewsIdle

NextChat ==
    \/ InitChannelFound
    \/ InitChannelMissing
    \/ InitCreateOk
    \/ InitCreateError
    \/ InitThrows
    \/ FetchMessagesOk
    \/ FetchMessagesError
    \/ SubscriptionStatus
    \/ RetryInitialization
    \/ RealtimeInsert
    \/ FetchSenderInfo
    \/ SetNewMessage
    \/ SendMessage
    \/ SendInsertApplied
    \/ SendResponseOk
    \/ SendResponseError
    \/ SendThrows
    \/ FileUploadStart
    \/ FileUploadStored
    \/ FileMessageSent
    \/ FileUploadFails
    \/ OtherUserInsert
    \/ ClockTick

SpecChat == InitChat /\ [][NextChat]_vars

\* The group chat with the user leaving the page at any moment.
NextChatLifecycle ==
    \/ NextChat
    \/ GroupChatUnmount

SpecChatLifecycle == InitChat /\ [][NextChatLifecycle]_vars

\* ---- AgencyChat ----
\* The view just mounted: with an agency_id the effect has called
\* fetchChannel, fetchMessages and subscribeToMessages.
InitAgencyChat ==
    /\ user \in {MkUser("u1", "n1", "agency_member", "a1"),
                 MkUser("u1", "n1", "core_member", Null)}
    /\ AuthResolved
    /\ RbacIdle
    /\ PagesIdle
    /\ ChatIdle
    /\ agencyMessages = <<>>
    /\ agencyNewMessage = <<>>
    /\ agencyChannel = NoChannel
    /\ agencySends = 0
    /\ agencyQueue = <<>>
    /\ agencyLookups = {}
    /\ agencyLoading = (user.agency_id # Null)
    /\ agencyRequests =
        IF user.agency_id # Null THEN {"channel", "messages"} ELSE {}
    /\ AccountingIdle
    /\ agencySubscribed = (user.agency_id # Null)
    /\ agencyDb \in {<<>>, <<AgencyRow(1, AgencyChannelKey("a1"), "u2")>>}
    /\ SettingsIdle

NextAgencyChat ==
    \/ AgencyFetchChannelOk
    \/ AgencyFetchChannelError
    \/ AgencyFetchMessagesOk
    \/ AgencyFetchMessagesError
    \/ AgencyRealtimeInsert
    \/ AgencyFetchSenderInfo
    \/ AgencySetNewMessage
    \/ AgencySendMessage
    \/ AgencySendOk
    \/ AgencySendError
    \/ AgencyHandleFileUpload
    \/ AgencyOtherInsert

SpecAgencyChat == InitAgencyChat /\ [][NextAgencyChat]_vars

\* A delivered event is handled and a sender lookup is answered.
FairSpecAgencyChat ==
    /\ SpecAgencyChat
    /\ WF_vars(AgencyRealtimeInsert)
    /\ WF_vars(AgencyFetchSenderInfo)

\* ---- Settings ----
InitSettings ==
    /\ user \in ViewUsers \cup {NoUser}
    /\ loading = FALSE
    /\ error = Null
    /\ initialized = TRUE
    /\ localStorage = <<ThemeEntry, SessionEntry>>
    /\ registeredRole = IF user = NoUser THEN "core_member" ELSE user.role
    /\ profileRow = user
    /\ AuthFlightIdle
    /\ RbacIdle
    /\ PagesIdle
    /\ ChatIdle
    /\ AgencyChatIdle
    /\ SettingsIdle
    /\ AccountingIdle

NextSettings ==
    \/ ShowPasswordForm
    \/ OnProfileSubmit
    \/ ProfileRowUpdated
    \/ ProfileEmailUpdated
    \/ ProfileUpdateFails
    \/ OnPasswordSubmit
    \/ PasswordUpdateOk
    \/ PasswordUpdateFails
    \/ MessageTimeout
    \/ HandleDeleteAccount
    \/ DeleteProfileOk
    \/ DeleteIdentityOk
    \/ DeleteSignOutReturns
    \/ DeleteAccountCatch

SpecSettings == InitSettings /\ [][NextSettings]_vars

\* ---- AgencyAccounting ----
\* The view just mounted: with an agency_id the effect has called
\* fetchTransactions.
InitAccounting ==
    /\ user \in {MkUser("u1", "n1", "agency_member", "a1"),
                 MkUser("u1", "n1", "agency_member", Null),
                 MkUser("u1", "n1", "core_member", Null)}
    /\ AuthResolved
    /\ RbacIdle
    /\ PagesIdle
    /\ ChatIdle
    /\ AgencyChatIdle
    /\ SettingsIdle
    /\ transactions = <<>>
    /\ acctShowForm = FALSE
    /\ editingTransaction = NoTransaction
    /\ ledgerWrites = {}
    /\ ledgerDb = InitialLedger
    /\ acctLoading = (user.agency_id # Null)
    /\ ledgerFetches =
        IF user.agency_id # Null THEN <<user.agency_id>> ELSE <<>>

NextAccounting ==
    \/ AccountingUserResolved
    \/ FetchTransactionsOk
    \/ FetchTransactionsError
    \/ ShowTransactionForm
    \/ HandleEditTransaction
    \/ HandleCancelTransaction
    \/ OnSubmitTransaction
    \/ HandleDeleteTransaction
    \/ LedgerWriteOk
    \/ LedgerWriteError

SpecAccounting == InitAccounting /\ [][NextAccounting]_vars

\* ---- signUp ----
\* The store once the app has loaded with nobody signed in, and no account
\* registered yet.
InitSignUp ==
    /\ user = NoUser
    /\ loading = FALSE
    /\ error \in {Null, "signin-failed"}
    /\ initialized = TRUE
    /\ localStorage \in {<<ThemeEntry>>, <<StaleEntry, ThemeEntry>>}
    /\ registeredRole \in Roles
    /\ profileRow = NoUser
    /\ AuthFlightIdle
    /\ RbacIdle
    /\ PagesIdle
    /\ ChatIdle
    /\ OtherViewsIdle

NextSignUp ==
    \/ SignUpStart
    \/ SignUpAuthError
    \/ SignUpAuthUser
    \/ SignUpAuthNoUser
    \/ SignUpProfileAnswered
    \/ SignInAuthError
    \/ SignInAuthUser
    \/ SignInAuthNoUser
    \/ SignInProfile
    \/ SignedInCallback

SpecSignUp == InitSignUp /\ [][NextSignUp]_vars

\* The timer of signOut's race is the browser's: once set it fires.
FairSpecAuth ==
    /\ SpecAuth
    /\ \A i \in 1..MaxSignOutCalls : WF_vars(SignOutTimeout(i))

(***************************************************************************)
(* Properties                                                              *)
(***************************************************************************)
AllQuickActionNames ==
    <<"Group Chat", "Agency Chat", "Journal", "Log Book", "Group Accounting",
      "Agency Accounting", "Notices", "To-Dos">>

AgencyQuickActionNames ==
    <<"Group Chat", "Agency Chat", "Agency Accounting", "Notices", "To-Dos">>

CoreOnlyPermissions ==
    {"VIEW_JOURNAL", "VIEW_LOG_BOOK", "VIEW_GROUP_ACCOUNTING"}

NoAuthTokenKey(ls) ==
    \A j \in DOMAIN ls : ~KeyIncludes(ls[j].key, "auth-token")

\* C2: every signOut call finishes with user = null, loading = false,
\* error = null and no local-storage key that includes "auth-token" left;
\* and a call that waits in the race always finishes, the timer being
\* enough when the remote call never settles.
C2_SignOutClearsWithinBound ==
    /\ [][\A i \in 1..MaxSignOutCalls :
            (signOutCall[i] = "racing" /\ signOutCall'[i] # "racing")
                => /\ user' = NoUser
                   /\ loading' = FALSE
                   /\ error' = Null
                   /\ NoAuthTokenKey(localStorage')]_vars
    /\ \A i \in 1..MaxSignOutCalls :
            (signOutCall[i] = "racing") ~> (signOutCall[i] # "racing")

\* A signOut call finished by its timer, the remote call still out, in a
\* store that held a stale token besides the session.
C2_Witness ==
    \E i \in 1..MaxSignOutCalls :
        /\ signOutCall[i] = "orphan"
        /\ user = NoUser
        /\ localStorage = <<ThemeEntry>>

\* C4: for a user of either role hasPermission is true exactly for the
\* permissions the role is listed for (all ten for core_member, all but
\* the three core-only ones for agency_member), and the dashboard shows all
\* eight quick actions to a core_member and all but Journal, Log Book and
\* Group Accounting to an agency_member.
C4_RoleCapabilities ==
    user # NoUser =>
        /\ rbacCall.fn = "hasPermission" =>
              (rbacCall.result <=>
                  (user.role = "core_member"
                      \/ rbacCall.arg \notin CoreOnlyPermissions))
        /\ rbacCall.fn \in {"Dashboard", "DashboardGuarded"} =>
              rbacCall.result =
                  IF user.role = "core_member" THEN AllQuickActionNames
                  ELSE AgencyQuickActionNames

C4_Witness ==
    /\ user # NoUser
    /\ user.role = "agency_member"
    /\ rbacCall.fn = "Dashboard"
    /\ Len(rbacCall.result) = 5

\* C5: with no user every access check denies: hasPermission,
\* canAccessRoute and hasAnyPermission return false, getUserPermissions
\* returns the empty list, and the sidebar and both dashboards list nothing.
C5_NoUserDeniesAll ==
    user = NoUser =>
        /\ rbacCall.fn \in {"hasPermission", "canAccessRoute", "hasAnyPermission"}
              => rbacCall.result = FALSE
        /\ rbacCall.fn \in {"getUserPermissions", "Layout", "Dashboard",
                            "DashboardGuarded"}
              => rbacCall.result = <<>>

C5_Witness ==
    /\ user = NoUser
    /\ rbacCall.fn = "hasAnyPermission"
    /\ Len(rbacCall.arg) = 2

\* C6: ProtectedRoute shows the protected pages exactly when initialized,
\* not loading and a user is present, redirects to /login exactly when
\* initialized, not loading and no user, and shows the loading screen in
\* every other state of the store.
C6_ProtectedRouteGate ==
    LET view == ProtectedRoute(user, loading, initialized)
        ready == initialized /\ ~loading
    IN  /\ (view = "children") <=> (ready /\ user # NoUser)
        /\ (view = "redirect-login") <=> (ready /\ user = NoUser)
        /\ (view = "loading-screen") <=> ~ready

\* A signed-in user whose store is loading again (a sign-out under way).
C6_Witness ==
    /\ user # NoUser
    /\ initialized
    /\ loading
    /\ ProtectedRoute(user, loading, initialized) = "loading-screen"

JournalControlsRendered(e) ==
    JournalEntryDisplayed(e) /\ JournalControlsOffered(user, e)

\* C7: on the journal page the edit and delete controls of a rendered entry
\* are offered exactly when its author_id is the viewer's id; they are
\* absent on every other entry and when there is no user, so the entry
\* being edited, every delete request and every deleted row is the
\* viewer's own.
C7_JournalControlsOwnEntriesOnly ==
    /\ \A e \in JournalRows :
          /\ JournalEntryDisplayed(e) =>
                (JournalControlsRendered(e) <=> e.author_id = user.id)
          /\ (user = NoUser \/ e.author_id # user.id) =>
                ~JournalControlsRendered(e)
    /\ editingEntry # NoEntry => editingEntry.author_id = user.id
    /\ \A d \in journalDeletes :
          \E e \in JournalRows : e.id = d.id /\ e.author_id = user.id
    /\ \A e \in JournalRows \ journalDb : e.author_id = user.id

\* A core member edits an own entry while another author's entry is shown.
C7_Witness ==
    /\ route = "journal"
    /\ editingEntry # NoEntry
    /\ \E e \in JournalRows :
          JournalEntryDisplayed(e) /\ e.author_id # user.id

\* C8: every status update asks for "pending" or "completed", the button
\* asks for the opposite of the status the todo shows, the stored statuses
\* stay within the two values, and applying an update a second time leaves
\* the table as the first application left it.
C8_StatusToggleIdempotent ==
    /\ \A i \in DOMAIN statusReqs :
          /\ statusReqs[i].status \in Statuses
          /\ statusReqs[i].shown \in Statuses
          /\ statusReqs[i].status # statusReqs[i].shown
    /\ \A id \in TodoIds : todosDb[id] \in Statuses
    /\ \A id \in TodoIds, st \in Statuses :
          ApplyStatusUpdate(ApplyStatusUpdate(todosDb, id, st), id, st)
              = ApplyStatusUpdate(todosDb, id, st)

\* Two clicks before the list was reloaded: the first update is applied,
\* the second, with the same target, is still in flight and the list still
\* shows the old status.
C8_Witness ==
    \E i \in DOMAIN statusReqs :
        /\ statusReqs[i].live
        /\ todosDb[statusReqs[i].id] = statusReqs[i].status
        /\ \E t \in Range(todos) :
              /\ TodoDisplayed(t)
              /\ t.id = statusReqs[i].id
              /\ t.status = statusReqs[i].shown

\* C9: on the notices page a core_member is offered the edit and delete
\* controls on every rendered notice, whoever posted it, and an
\* agency_member is not offered them on notices posted by others.
C9_NoticeControlsByRole ==
    route = "notices" =>
        \A n \in NoticeRows :
            NoticeDisplayed(n) =>
                /\ user.role = "core_member" => NoticeControlsOffered(user, n)
                /\ (user.role = "agency_member" /\ n.posted_by # user.id)
                      => ~NoticeControlsOffered(user, n)

\* C10: the Journal and Log Book pages render their content exactly for a
\* core_member and the restricted notice for an agency_member or no user,
\* however the route was entered; entries, search and form are rendered
\* for a core_member only.
C10_CoreOnlyPages ==
    route \in {"journal", "log-book"} =>
        /\ PageView = IF user # NoUser /\ user.role = "core_member"
                      THEN "content" ELSE "restricted"
        /\ ((\E e \in JournalRows : JournalEntryDisplayed(e))
                \/ showForm \/ searchTerm # "")
              => (user # NoUser /\ user.role = "core_member")

\* An agency member on /journal: the entries are loaded, the page shows
\* the restricted notice.
C10_Witness ==
    /\ route = "journal"
    /\ user.role = "agency_member"
    /\ entries # <<>>
    /\ PageView = "restricted"

\* ---- GroupChat ----
\* A row both of whose arrivals have been processed: sendMessage has handled
\* the insert's answer, and the subscription callback has handled the row's
\* INSERT event, the sender lookup it may have started included.
AckedAndEchoed(id) ==
    /\ id \in ackedRows
    /\ id \in echoedRows
    /\ \A row \in senderLookups : row.id # id

\* A sendMessage call waiting for its answer has its temporary record in
\* the list.
OptimisticShown ==
    sendCall # NoSend => Count(messages, sendCall.tempId) = 1

\* C1: sendMessage appends a temporary record before the write is answered,
\* and once both the write's answer and the realtime INSERT event of the
\* same row have been processed, in either order, the message list holds
\* exactly one entry for that message.
C1_OneEntryPerSentMessage ==
    /\ OptimisticShown
    /\ \A k \in 1..Len(messagesDb) :
            AckedAndEchoed(messagesDb[k].id)
                => Count(messages, messagesDb[k].id) = 1

\* The step is the error branch or the catch of a sendMessage call.
SendFails ==
    /\ sendCall # NoSend
    /\ sendCall' = NoSend
    /\ ackedRows' = ackedRows

\* C3: when the insert of sendMessage answers an error or throws, the
\* temporary record of that call leaves the list, every other entry stays
\* where it was, the compose field gets the text that was being sent, and
\* an error message is set.
C3_FailedSendRollsBack ==
    [][SendFails =>
        /\ \E j \in 1..Len(messages) :
                /\ messages[j].id = sendCall.tempId
                /\ messages' = RemoveAt(messages, j)
        /\ ~HasId(messages', sendCall.tempId)
        /\ newMessage' = sendCall.content
        /\ newMessage' # <<>>
        /\ chatError' \in SendErrors
        /\ sending' = FALSE]_vars

\* A send has failed with other entries in the list: the list is without
\* temporary records, the draft is back in the compose field, trimmed, and
\* the error is shown.
C3_Witness ==
    /\ chatError \in SendErrors
    /\ sendCall = NoSend
    /\ newMessage = <<"h", "i">>
    /\ Len(messages) >= 1
    /\ \A j \in 1..Len(messages) : messages[j].id.kind = "row"

\* ---- AgencyChat ----
\* C11: the channel identifier a chat view loads and subscribes with is the
\* identifier its sendMessage writes as channel_id, so a row the view has
\* sent matches the view's own load query and subscription filter.  (The
\* group view passes the one existingChannel.id to all three; the agency
\* view is the one with two expressions.)
C11_SentRowsMatchOwnQuery ==
    \A k \in 1..Len(agencyDb) :
        agencyDb[k].sender_id = user.id
            => agencyDb[k].channel_id = AgencyChannelKey(user.agency_id)

\* C12: every INSERT event delivered to a chat view for a message not in the
\* list leads to that message being in the list once its sender lookup has
\* finished, whatever the lookup answers.
C12_DeliveredEventsAreAppended ==
    \A k \in 1..MaxRows :
        (\E row \in agencyLookups : row.id = RowId(k))
            ~> HasId(agencyMessages, RowId(k))

\* ---- GroupChat: order of the list ----
\* The step ends a full reload (fetchMessages).
ReloadStep == initPc = "fetch" /\ initPc' # "fetch"

\* Rows in ascending created_at order (the platform numbers rows as they
\* are created).
AscendingRows(msgs) ==
    \A i, j \in 1..Len(msgs) :
        i < j => /\ msgs[i].id.kind = "row"
                 /\ msgs[j].id.kind = "row"
                 /\ msgs[i].id.n < msgs[j].id.n

\* C13: the group chat list is the initial load in ascending created_at
\* order followed by later messages in the order this client processed
\* them: a step that is not a full reload leaves the list alone, appends one
\* entry at the end, replaces a temporary record in place by a confirmed
\* row, or removes a temporary record; confirmed entries are never moved or
\* removed.
C13_ListInObservedInsertionOrder ==
    [][IF ReloadStep
       THEN AscendingRows(messages')
       ELSE \/ messages' = messages
            \/ /\ Len(messages') = Len(messages) + 1
               /\ SubSeq(messages', 1, Len(messages)) = messages
            \/ /\ Len(messages') = Len(messages)
               /\ \A j \in 1..Len(messages) :
                    \/ messages'[j] = messages[j]
                    \/ /\ messages[j].id.kind = "temp"
                       /\ messages'[j].id.kind = "row"
            \/ \E j \in 1..Len(messages) :
                    /\ messages[j].id.kind = "temp"
                    /\ messages' = RemoveAt(messages, j)]_vars

\* This client's own message confirmed in the place its temporary record
\* took, followed by an older row that reached the list after it: the order
\* is the order of arrival at this client, not created_at.
C13_Witness ==
    /\ Len(messages) >= 2
    /\ \E j \in 1..(Len(messages) - 1) :
            /\ messages[j].id \in ackedRows
            /\ messages[j + 1].id.kind = "row"
            /\ messages[j + 1].id # messages[j].id
            /\ messages[j + 1].id.n < messages[j].id.n

\* ---- GroupChat: attachments ----
\* C14: handleFileUpload inserts the attachment message only after the
\* storage upload has succeeded, with attachment_url the public URL of the
\* uploaded key; when the upload fails no message row is inserted and an
\* error message is set; and on every path sending is false at the end.
C14_UploadBeforeAttachmentMessage ==
    /\ [](\A a \in attachmentRows :
            \E key \in storageKeys :
                /\ key # NoKey
                /\ a.attachment_url = [bucket |-> "chat-attachments",
                                       path |-> key])
    /\ [][/\ (uploadPc = "upload" /\ uploadPc' = "idle")
                => /\ messagesDb' = messagesDb
                   /\ attachmentRows' = attachmentRows
                   /\ chatError' # Null
          /\ (uploadPc = "upload" /\ uploadPc' = "message")
                => /\ uploadKey \in storageKeys'
                   /\ messagesDb' = messagesDb
          /\ (uploadPc # "idle" /\ uploadPc' = "idle")
                => sending' = FALSE]_vars

\* An attachment message is in the table, its file stored, the upload over.
C14_Witness ==
    /\ attachmentRows # {}
    /\ storageKeys # {}
    /\ uploadPc = "idle"
    /\ ~sending

\* ---- Settings: account deletion ----
\* A step of handleDeleteAccount after the first has failed.
LaterDeleteStepFails ==
    \/ /\ settingsPc = "deleteIdentity"
       /\ settingsPc' # "deleteIdentity"
       /\ ~identityDeleted'
    \/ /\ settingsPc = "signOut"
       /\ settingsPc' # "signOut"
       /\ ~sessionEnded'

\* C15: handleDeleteAccount deletes the profile row, then the auth identity,
\* then signs out and redirects, in that order; when a later step fails the
\* profile row stays deleted, the user is neither signed out nor redirected,
\* and an error message is shown with loading cleared.
C15_DeleteAccountStopsAtFailure ==
    /\ [](/\ identityDeleted => profileDeleted
          /\ (sessionEnded \/ location = "/login") => identityDeleted)
    /\ [][LaterDeleteStepFails
            => /\ profileDeleted'
               /\ ~sessionEnded'
               /\ location' = "/settings"
               /\ settingsMessage' = DeleteFailed
               /\ settingsLoading' = FALSE]_vars

\* ---- signUp ----
\* C16: signUp proceeds to signIn whenever auth.signUp returned a user, also
\* when the profile row could not be created, and neither retries the
\* profile row nor removes the auth identity; when auth.signUp itself fails
\* no profile row is written, no sign-in is attempted, and the store ends
\* with error set and loading = false.
C16_SignUpBestEffort ==
    [][/\ (signUpPc = "profile" /\ signUpPc' # "profile")
            => /\ signUpPc' = "idle"
               /\ signInPc' = "auth"
               /\ loading' = TRUE
               /\ error' = Null
               /\ identityExists'
       /\ (signUpPc = "idle" /\ signUpPc' = "idle")
            => profileRow' = profileRow
       /\ identityExists => identityExists'
       /\ (signUpPc = "auth" /\ signUpPc' # "auth" /\ signUpAnswer' = "error")
            => /\ profileRow' = profileRow
               /\ signUpPc' = "idle"
               /\ signInPc' = "idle"
               /\ error' # Null
               /\ loading' = FALSE]_vars

\* signUp has called signIn for an identity whose profile row could not be
\* created.
C16_Witness ==
    /\ identityExists
    /\ signUpAnswer = "user"
    /\ profileRow = NoUser
    /\ signUpPc = "idle"
    /\ signInPc = "auth"

\* ---- pages: failed platform calls ----
\* C17: in the journal, todos and notices views every failed platform call
\* ends with an inline error message set in the view and the loading
\* indicator cleared.
C17_FailedCallsShowInlineError ==
    [][/\ FetchEntriesError
            => InlineError("journal")' # Null /\ journalLoading' = FALSE
       /\ JournalDeleteError => InlineError("journal")' # Null
       /\ FetchNoticesError
            => InlineError("notices")' # Null /\ noticesLoading' = FALSE
       /\ FetchTodosError
            => InlineError("todos")' # Null /\ todosLoading' = FALSE
       /\ StatusUpdateError => InlineError("todos")' # Null]_vars

\* ---- GroupChat: initialization ----
\* C18: initializeChat uses the existing group channel when one is found
\* and otherwise creates one; when the creation fails it sets an error,
\* leaves the channel unset, loads no messages and opens no subscription;
\* channelLoading is false at the end of every path; and Try Again re-runs
\* the whole initialization.
C18_InitializeChatPaths ==
    [][/\ (initPc = "lookup" /\ initPc' = "fetch")
            => channelsDb /\ channelsDb' /\ channel' = "group"
       /\ (initPc = "lookup" /\ initPc' = "create")
            => channel' = Null /\ channelsDb' = channelsDb
       /\ (initPc = "create" /\ initPc' = "fetch")
            => channelsDb' /\ channel' = "group"
       /\ (initPc = "create" /\ initPc' = "idle")
            => /\ chatError' # Null
               /\ channel' = Null
               /\ messages' = <<>>
               /\ messageIdsRef' = {}
               /\ chatLoading' = FALSE
               /\ subscriptionRef' = "none"
       /\ (initPc # "idle" /\ initPc' = "idle") => channelLoading' = FALSE
       /\ (initPc = "idle" /\ initPc' # "idle")
            => /\ ChatView = "error-screen"
               /\ initPc' = "lookup"
               /\ channelLoading' = TRUE
               /\ chatError' = Null]_vars

\* The creation of the channel has failed: the error screen with Try Again
\* is shown, nothing loaded, nothing subscribed.
C18_Witness ==
    /\ ChatView = "error-screen"
    /\ chatError =
        "Unable to create chat channel. Please check your permissions."
    /\ initPc = "idle"
    /\ channel = Null
    /\ subscriptionRef = "none"

\* ---- authStore: getCurrentUser ----
\* C19: on load, getCurrentUser with a cached session in local storage
\* first publishes a user built from that session (initialized = true,
\* loading = false) and then replaces it by the remote result: the profile
\* row when found, a basic user from the auth metadata when not, and null
\* when the remote reports no identity; with no cached session the user
\* stays null until the remote result arrives.
C19_CachedUserThenRemote ==
    [][/\ (gcuPc = "idle" /\ gcuPc' = "getUser")
            => IF getStoredSession(localStorage)
               THEN /\ user' = MkUser(AccountId, MetaName, registeredRole,
                                       Null)
                    /\ initialized' = TRUE
                    /\ loading' = FALSE
               ELSE /\ user = NoUser
                    /\ user' = NoUser
                    /\ initialized' = FALSE
                    /\ loading' = TRUE
       /\ (gcuPc = "getUser" /\ gcuPc' = "profile") => user' = user
       /\ (gcuPc = "profile" /\ gcuPc' = "idle")
            => /\ user' \in {profileRow,
                              MkUser(AccountId, MetaName, registeredRole,
                                     Null)}
               /\ user' # NoUser
               /\ initialized' = TRUE
               /\ loading' = FALSE
       /\ (gcuPc = "getUser" /\ gcuPc' = "idle" /\ error' = error)
            => /\ user' = NoUser
               /\ initialized' = TRUE
               /\ loading' = FALSE]_vars

\* The cached user has been published and the remote lookup of the
\* profile is still awaited.
C19_Witness ==
    /\ gcuPc = "profile"
    /\ getStoredSession(localStorage)
    /\ user = MetaBasicUser(registeredRole)
    /\ profileRow # NoUser
    /\ user # profileRow
    /\ initialized
    /\ ~loading

\* ---- AgencyAccounting ----
\* C20: agency accounting loads only transactions whose agency_id equals
\* the user's agency_id, every transaction it creates carries the user's
\* agency_id and the user's id as added_by, and for a user without an
\* agency_id it neither loads nor writes anything.
C20_LedgerScopedToAgency ==
    [][/\ \A i \in DOMAIN transactions' :
             transactions'[i].agency_id = user'.agency_id
       /\ \A r \in ledgerDb' :
             r.id \notin LedgerIds(ledgerDb)
                => r.agency_id = user.agency_id /\ r.added_by = user.id
       /\ user.agency_id = Null
            => /\ transactions' = <<>>
               /\ ledgerDb' = ledgerDb
               /\ ledgerWrites' = {}
               /\ user'.agency_id = Null => ledgerFetches' = <<>>]_vars

\* The user's agency has rows of two users on display, one of them created
\* from this view, while another agency's row is in the table.
C20_Witness ==
    /\ user.agency_id = "a1"
    /\ Len(transactions) = 2
    /\ \E i \in DOMAIN transactions : transactions[i].added_by = user.id
    /\ \E i \in DOMAIN transactions : transactions[i].added_by # user.id
    /\ \E r \in ledgerDb : r.agency_id # user.agency_id

\* ---- Todos: filter by agency ----
\* C21: for an agency_member with an agency_id, the todo list after every
\* load contains only todos whose agency_id equals the user's agency_id;
\* for a core_member the load is not filtered by agency.
C21_TodosFilteredByAgency ==
    [][/\ (user.role = "agency_member" /\ user.agency_id # Null)
            => \A i \in DOMAIN todos' :
                  todos'[i].agency_id = user.agency_id
       /\ (user.role = "core_member" /\ todos' # todos /\ todos' # <<>>)
            => { todos'[i].id : i \in DOMAIN todos' } = TodoIds]_vars

\* An agency member's list after a load: the task of the agency, without
\* the personal task that the table also holds.
C21_Witness ==
    /\ user.role = "agency_member"
    /\ user.agency_id = "a1"
    /\ route = "todos"
    /\ ~todosLoading
    /\ Len(todos) = 1
    /\ todos[1].id = "t2"

\* ---- authStore: requests that outlive a sign-out ----
\* C22: after signOut has completed, the store's user stays null until a
\* new sign-in is started: no request that was started before the sign-out
\* (getCurrentUser, updateProfile, the profile lookup of signIn or of the
\* SIGNED_IN auth-state callback) can later set user to a non-null value.
C22_SignedOutStaysSignedOut == signedOut => user = NoUser

\* ---- authStore: loading is cleared ----
\* C23: every signIn, signUp, getCurrentUser and updateProfile call whose
\* remote requests all return leaves the store with loading = false,
\* including a signIn for which the auth service returns neither an error
\* nor a user, so the protected routes never stay on the loading screen.
C23_FinishedCallsClearLoading ==
    [][/\ (signInPc # "idle" /\ signInPc' = "idle") => loading' = FALSE
       /\ (signUpPc # "idle" /\ signUpPc' = "idle" /\ signInPc' = "idle")
            => loading' = FALSE
       /\ (gcuPc # "idle" /\ gcuPc' = "idle") => loading' = FALSE
       /\ (updPc # "idle" /\ updPc' = "idle") => loading' = FALSE]_vars

\* ---- authStore: the role of the fallback user ----
\* C24: a user registered as agency_member (role agency_member in the
\* profile row and in the sign-up metadata) never appears in the auth store
\* with role core_member after any sequence of signIn, getCurrentUser and
\* auth-state events, also when the profile lookup fails or returns no row.
C24_AgencyMemberNeverCore ==
    (registeredRole = "agency_member" /\ profileRow.role = "agency_member")
        => user.role # "core_member"

\* ---- rbac: the sidebar against the permission table ----
\* The permission of the feature behind each sidebar route.
RoutePermission(r) ==
    CASE r = "dashboard"         -> "VIEW_DASHBOARD"
      [] r = "profile"           -> "EDIT_PROFILE"
      [] r = "group-chat"        -> "VIEW_GROUP_CHAT"
      [] r = "notices"           -> "VIEW_NOTICES"
      [] r = "todos"             -> "VIEW_TODOS"
      [] r = "journal"           -> "VIEW_JOURNAL"
      [] r = "log-book"          -> "VIEW_LOG_BOOK"
      [] r = "group-accounting"  -> "VIEW_GROUP_ACCOUNTING"
      [] r = "agency-chat"       -> "VIEW_AGENCY_CHAT"
      [] r = "agency-accounting" -> "VIEW_AGENCY_ACCOUNTING"

SidebarRoutes ==
    { RouteOfHref(navigation[i].href) : i \in DOMAIN navigation }

\* C25: for both roles and for every sidebar route, canAccessRoute(user,
\* route) equals hasPermission(user, P) for the permission P of that
\* feature, so the sidebar and the dashboard quick actions never disagree
\* about a feature.
C25_RoutesAgreeWithPermissions ==
    user.role \in Roles =>
        /\ (rbacCall.fn = "canAccessRoute" /\ rbacCall.arg \in SidebarRoutes)
              => rbacCall.result
                    = hasPermission(user, RoutePermission(rbacCall.arg))
        /\ rbacCall.fn = "Layout"
              => rbacCall.result
                    = Names(SelectSeq(navigation, LAMBDA item :
                          hasPermission(user,
                              RoutePermission(RouteOfHref(item.href)))))

\* canAccessRoute has denied the journal to an agency member.
C25_Witness ==
    /\ user.role = "agency_member"
    /\ rbacCall.fn = "canAccessRoute"
    /\ rbacCall.arg = "journal"
    /\ rbacCall.result = FALSE

\* ---- chat views: the change-feed subscription ----
\* C26: a chat view holds at most one active change-feed subscription at
\* any time, and after the view has unmounted none of the subscriptions it
\* opened is still active, also when the unmount happens while
\* initializeChat is still waiting for the channel or the messages.
C26_NoSubscriptionAfterUnmount ==
    chatUnmounted => subscriptionRef \in {"none", "closed"}

C28_SeenSetCoversList ==
    \A j \in 1..Len(messages) :
        messages[j].id.kind = "row" => messages[j].id \in messageIdsRef

\* A loaded row of another user and an own confirmed message are in the
\* list, both known to the seen-set.
C28_Witness ==
    /\ Len(messages) = 2
    /\ messages[1].sender_id = "u2"
    /\ messages[2].id \in ackedRows
    /\ \A j \in 1..Len(messages) : messages[j].id \in messageIdsRef

=============================================================================
